---- MODULE Spec2Model ----
(***************************************************************************)
(* The in-memory store of the workflow graph recorder (backend/app):       *)
(* AppStore with its GraphState and MarkovPredictor, the session-linking   *)
(* state machine of append_action, and the session lifecycle of main.py.   *)
(*                                                                         *)
(* Python values are encoded as follows.  Optional[T] is a sequence of     *)
(* length at most one: None is << >> and a value v is << v >>.  A dict is  *)
(* the sequence of its << key, value >> items in insertion order (the      *)
(* order Python iterates it in).  A list is a sequence.                    *)
(***************************************************************************)
EXTENDS Integers, Sequences, FiniteSets, TLC

\* ------------------------------------------------------------------ bounds

\* Timestamps of the actions and of the clock range over 0..MaxTs.
MaxTs == 1
\* At most MaxAppends actions are appended in one behaviour.
MaxAppends == 3
\* The store is constructed with max_events = MaxEvents.
MaxEvents == 2
\* predict_next is called with k in 0..MaxK.
MaxK == 1
\* At most MaxAgents recorder agents are constructed in one behaviour.
MaxAgents == 2
\* At most MaxObserve transitions are observed by a predictor on its own.
MaxObserve == 4
\* MaxTasks tasks call the store concurrently, MaxOps operations in all.
MaxTasks == 2
MaxOps == 3
\* A state snapshot lists at most MaxTestIds test ids.
MaxTestIds == 3
\* An edge collects at most MaxSamples samples, each at most MaxDt.
MaxSamples == 4
MaxDt == 3
\* At most MaxStops stop_session calls await the stop() of one agent at a time.
MaxStops == 1

\* ------------------------------------------------------------------ values

None == << >>
Some(v) == << v >>
Val(o) == o[1]

\* Python truthiness of an Optional[str]: None and "" are falsy.
Truthy(o) == o # None /\ Val(o) # ""

Max(a, b) == IF a >= b THEN a ELSE b

Ids == {"a", "b"}
Labels == {"L1", "L2"}
ActionKind == {"CLICK", "SHORTCUT", "KEYBOARD", "MOUSE", "NAV", "TAB", "DOM", "STATE", "OTHER"}
\* the workflow kinds with the keyboard kind among them
WORKFLOW_KINDS_with_keyboard == {"CLICK", "SHORTCUT", "NAV", "KEYBOARD"}

WORKFLOW_KINDS == {"CLICK", "SHORTCUT", "NAV"}
STATE_KIND == "STATE"
\* every kind taken for a workflow kind
is_workflow_kind_any(kind) == TRUE

is_workflow_kind(kind) == kind \in WORKFLOW_KINDS

Timestamps == 0..MaxTs

\* dict operations (insertion-ordered)
DictKeys(d) == {d[i][1] : i \in DOMAIN d}
DictHas(d, k) == \E i \in DOMAIN d : d[i][1] = k
DictGet(d, k, default) ==
    IF DictHas(d, k) THEN d[CHOOSE i \in DOMAIN d : d[i][1] = k][2] ELSE default
DictSet(d, k, v) ==
    IF DictHas(d, k)
    THEN [i \in DOMAIN d |-> IF d[i][1] = k THEN <<k, v>> ELSE d[i]]
    ELSE Append(d, <<k, v>>)

\* lst[-n:] for n >= 0; note that lst[-0:] is the whole list
LastN(lst, n) ==
    IF n = 0 \/ Len(lst) <= n THEN lst ELSE SubSeq(lst, Len(lst) - n + 1, Len(lst))

\* lst[:k] for k >= 0
FirstN(lst, k) == IF Len(lst) <= k THEN lst ELSE SubSeq(lst, 1, k)

RECURSIVE SeqSum(_)
SeqSum(s) == IF s = << >> THEN 0 ELSE s[1] + SeqSum(Tail(s))

\* ------------------------------------------------------------------ strings

\* The characters of the model's strings, in code point order.
Digits == {"0", "1", "2", "3", "4", "5", "6", "7", "8", "9"}
CodePoints == <<" ", "#", "+", "-", ".", "/",
                "0", "1", "2", "3", "4", "5", "6", "7", "8", "9", ":", "=", ">",
                "A", "B", "C", "D", "E", "F", "G", "H", "I", "J", "K", "L", "M",
                "N", "O", "P", "Q", "R", "S", "T", "U", "V", "W", "X", "Y", "Z",
                "[", "]", "_",
                "a", "b", "c", "d", "e", "f", "g", "h", "i", "j", "k", "l", "m",
                "n", "o", "p", "q", "r", "s", "t", "u", "v", "w", "x", "y", "z", "|">>
Ord(c) == CHOOSE i \in DOMAIN CodePoints : CodePoints[i] = c
IsSpace(c) == c = " "
\* \w of the regular expressions
WordChars == {CodePoints[i] : i \in (Ord("0")..Ord("9")) \cup (Ord("A")..Ord("Z"))
                                     \cup {Ord("_")} \cup (Ord("a")..Ord("z"))}
IsWordChar(c) == c \in WordChars

\* a < b for str
RECURSIVE StrLess(_, _)
StrLess(a, b) ==
    IF b = "" THEN FALSE
    ELSE IF a = "" THEN TRUE
    ELSE IF Head(a) = Head(b) THEN StrLess(Tail(a), Tail(b))
    ELSE Ord(Head(a)) < Ord(Head(b))

\* sep.join(parts)
RECURSIVE Join(_, _)
Join(sep, parts) ==
    IF parts = << >> THEN ""
    ELSE IF Len(parts) = 1 THEN parts[1]
    ELSE parts[1] \o sep \o Join(sep, Tail(parts))

\* the list as it came, neither deduplicated nor sorted
SortedSet_keeps_list(lst) == lst

\* sorted(set(lst)) for a list of str
RECURSIVE SortedStrs(_)
SortedStrs(S) ==
    IF S = {} THEN << >>
    ELSE LET m == CHOOSE x \in S : \A y \in S \ {x} : StrLess(x, y)
         IN <<m>> \o SortedStrs(S \ {m})
SortedSet(lst) == SortedStrs({lst[i] : i \in DOMAIN lst})

\* s[:n]
StrPrefix(s, n) == IF Len(s) <= n THEN s ELSE SubSeq(s, 1, n)

\* ------------------------------------------------------------------ recorder/sanitize.py

\* s.strip()
RECURSIVE LStrip(_)
LStrip(s) == IF s # "" /\ IsSpace(Head(s)) THEN LStrip(Tail(s)) ELSE s
RECURSIVE RStrip(_)
RStrip(s) ==
    IF s # "" /\ IsSpace(SubSeq(s, Len(s), Len(s))) THEN RStrip(SubSeq(s, 1, Len(s) - 1)) ELSE s
Strip(s) == RStrip(LStrip(s))

\* the longest prefix of s made of word characters
RECURSIVE WordPrefix(_)
WordPrefix(s) ==
    IF s # "" /\ IsWordChar(Head(s)) THEN Head(s) \o WordPrefix(Tail(s)) ELSE ""
AllDigits(w) == \A i \in 1..Len(w) : SubSeq(w, i, i) \in Digits

\* LONG_NUM_RE.sub("[redacted-number]", s): a word of six or more digits and nothing else
RECURSIVE RedactLongNumbers(_)
RedactLongNumbers(s) ==
    IF s = "" THEN ""
    ELSE IF ~IsWordChar(Head(s)) THEN Head(s) \o RedactLongNumbers(Tail(s))
    ELSE LET w == WordPrefix(s)
             rest == SubSeq(s, Len(w) + 1, Len(s))
         IN (IF AllDigits(w) /\ Len(w) >= 6 THEN "[redacted-number]" ELSE w)
            \o RedactLongNumbers(rest)

\* re.sub(r"\s+", " ", s)
RECURSIVE CollapseSpaces(_)
CollapseSpaces(s) ==
    IF s = "" THEN ""
    ELSE IF IsSpace(Head(s)) THEN " " \o CollapseSpaces(LStrip(s))
    ELSE Head(s) \o CollapseSpaces(Tail(s))

\* The model's strings hold no "@", so EMAIL_RE matches nowhere.
scrub_text(s, max_len) ==
    IF s = "" THEN ""
    ELSE StrPrefix(CollapseSpaces(RedactLongNumbers(Strip(s))), max_len)

\* urlparse(url).netloc and .path of the model's urls
Urls == {"", "http://localhost:3000/", "http://localhost:3000/app", "http://evil.test/"}
safe_host(url) ==
    CASE url = "http://localhost:3000/" -> "localhost:3000"
      [] url = "http://localhost:3000/app" -> "localhost:3000"
      [] url = "http://evil.test/" -> "evil.test"
      [] OTHER -> ""
safe_path(url) ==
    CASE url = "http://localhost:3000/app" -> "/app"
      [] OTHER -> "/"

\* ------------------------------------------------------------------ graph.py

EdgeStat == [count |-> 0, dts |-> << >>]
GraphState == [node_counts |-> << >>, node_meta |-> << >>, edges |-> << >>]

\* touch_node with the count written only on first sight (setdefault instead of increment)
touch_node_setdefault(g, node_id, label, kind) ==
    [g EXCEPT
        !.node_counts = IF DictHas(g.node_counts, node_id) THEN g.node_counts
                        ELSE DictSet(g.node_counts, node_id, 1),
        !.node_meta = IF ~DictHas(g.node_meta, node_id)
                      THEN DictSet(g.node_meta, node_id, <<label, kind>>)
                      ELSE g.node_meta]

\* touch_node that stores the label and kind of every observation
touch_node_overwrites_meta(g, node_id, label, kind) ==
    [g EXCEPT
       !.node_counts = DictSet(g.node_counts, node_id, DictGet(g.node_counts, node_id, 0) + 1),
       !.node_meta = DictSet(g.node_meta, node_id, <<label, kind>>)]

touch_node(g, node_id, label, kind) ==
    [g EXCEPT
        !.node_counts = DictSet(g.node_counts, node_id, DictGet(g.node_counts, node_id, 0) + 1),
        !.node_meta = IF ~DictHas(g.node_meta, node_id)
                      THEN DictSet(g.node_meta, node_id, <<label, kind>>)
                      ELSE g.node_meta]

\* add_edge without the clamp max(0, dt)
add_edge_unclamped(g, frm, to, dt) ==
    LET key == <<frm, to>>
        st == DictGet(g.edges, key, [count |-> 0, dts |-> << >>])
    IN [g EXCEPT !.edges = DictSet(g.edges, key,
            [count |-> st.count + 1, dts |-> Append(st.dts, dt)])]

\* add_edge that keeps the latest sample only
add_edge_keeps_last_sample(g, frm, to, dt) ==
    LET key == <<frm, to>>
        st == DictGet(g.edges, key, EdgeStat)
    IN [g EXCEPT !.edges = DictSet(g.edges, key,
            [count |-> st.count + 1, dts |-> <<Max(0, dt)>>])]

add_edge(g, frm, to, dt) ==
    LET key == <<frm, to>>
        st == DictGet(g.edges, key, EdgeStat)
    IN [g EXCEPT !.edges = DictSet(g.edges, key,
            [count |-> st.count + 1, dts |-> Append(st.dts, Max(0, dt))])]

\* the median that takes the upper of the two middle samples
median_upper_middle(dts) ==
    LET srt == SortSeq(dts, LAMBDA x, y : x < y)
    IN srt[Len(srt) \div 2 + 1]

\* statistics.median of a non-empty list of non-negative ints, then int()
median(dts) ==
    LET srt == SortSeq(dts, LAMBDA x, y : x < y)
        n == Len(srt)
    IN IF n % 2 = 1 THEN srt[(n + 1) \div 2]
       ELSE (srt[n \div 2] + srt[n \div 2 + 1]) \div 2

snapshot(g, now_ms) ==
    [v |-> 1,
     generated_at |-> now_ms,
     nodes |-> [i \in DOMAIN g.node_counts |->
        LET nid == g.node_counts[i][1]
            meta == DictGet(g.node_meta, nid, <<nid, "OTHER">>)
        IN [id |-> nid, label |-> meta[1], kind |-> meta[2],
            count |-> DictGet(g.node_counts, nid, 0)]],
     edges |-> [i \in DOMAIN g.edges |->
        LET key == g.edges[i][1]
            st == g.edges[i][2]
        IN [from |-> key[1], to |-> key[2], count |-> st.count,
            median_ms |-> IF st.dts = << >> THEN 0 ELSE median(st.dts),
            avg_ms |-> IF st.dts = << >> THEN 0 ELSE SeqSum(st.dts) \div Len(st.dts)]]]

\* ------------------------------------------------------------------ predictor.py

MarkovPredictor == [transitions |-> << >>, outgoing |-> << >>]

\* observe counting the transition twice
observe_counts_twice(p, a, b) ==
    [transitions |-> DictSet(p.transitions, <<a, b>>, DictGet(p.transitions, <<a, b>>, 0) + 2),
     outgoing |-> DictSet(p.outgoing, a, DictGet(p.outgoing, a, 0) + 2)]

\* observe that leaves the outgoing count as it is
observe_forgets_outgoing(p, a, b) ==
    [transitions |-> DictSet(p.transitions, <<a, b>>, DictGet(p.transitions, <<a, b>>, 0) + 1),
     outgoing |-> p.outgoing]

observe(p, a, b) ==
    [transitions |-> DictSet(p.transitions, <<a, b>>, DictGet(p.transitions, <<a, b>>, 0) + 1),
     outgoing |-> DictSet(p.outgoing, a, DictGet(p.outgoing, a, 0) + 1)]

\* list.sort(key=count, reverse=True): stable, equal counts keep their order
RECURSIVE SortByCountDesc(_)
SortByCountDesc(cands) ==
    IF cands = << >> THEN << >>
    ELSE LET rest == SortByCountDesc(SubSeq(cands, 1, Len(cands) - 1))
             x == cands[Len(cands)]
             pos == Cardinality({i \in DOMAIN rest : rest[i][2] >= x[2]})
         IN SubSeq(rest, 1, pos) \o <<x>> \o SubSeq(rest, pos + 1, Len(rest))

\* top_k with equal counts in the reverse of their insertion order
top_k_reverses_ties(p, a, k) ==
    LET sel == SelectSeq(p.transitions, LAMBDA it : it[1][1] = a)
        n == Len(sel)
        cands == [i \in 1..n |-> <<sel[n + 1 - i][1][2], sel[n + 1 - i][2]>>]
    IN FirstN(SortByCountDesc(cands), k)

top_k(p, a, k) ==
    LET idx == {i \in DOMAIN p.transitions : p.transitions[i][1][1] = a}
        sel == SelectSeq(p.transitions, LAMBDA it : it[1][1] = a)
        cands == [i \in 1..Cardinality(idx) |-> <<sel[i][1][2], sel[i][2]>>]
    IN FirstN(SortByCountDesc(cands), k)

\* ------------------------------------------------------------------ store.py

\* AppStore.__init__
AppStore(max_events) ==
    [max_events |-> max_events,
     recording |-> FALSE,
     session_id |-> None,
     events |-> << >>,
     actions |-> << >>,
     graph |-> GraphState,
     predictor |-> MarkovPredictor,
     last_action_id |-> None,
     last_action_ts |-> None,
     last_workflow_action_id |-> None,
     last_workflow_action_ts |-> None,
     last_state_id |-> None,
     last_state_ts |-> None,
     await_post_state_action_id |-> None,
     await_post_state_action_ts |-> None,
     agent |-> None]

set_recording(s, on, sid) == [s EXCEPT !.recording = on, !.session_id = sid]

append_event(s, ev) ==
    LET evs == Append(s.events, ev)
    IN [s EXCEPT !.events = IF Len(evs) > s.max_events THEN LastN(evs, s.max_events) ELSE evs]

\* the STATE branch with the pending slot left set after it was resolved
append_state_action_keeps_pending(s, act) ==
    LET resolve == /\ s.await_post_state_action_id # None
                   /\ s.await_post_state_action_ts # None
                   /\ act.ts >= Val(s.await_post_state_action_ts)
        s1 == IF resolve
              THEN [s EXCEPT
                    !.graph = add_edge(s.graph, Val(s.await_post_state_action_id), act.id,
                                       act.ts - Val(s.await_post_state_action_ts))]
              ELSE s
    IN [s1 EXCEPT !.last_state_id = Some(act.id),
                  !.last_state_ts = Some(act.ts),
                  !.last_action_id = Some(act.id),
                  !.last_action_ts = Some(act.ts)]

\* the STATE branch resolving the pending link whatever the timestamp of the snapshot
append_state_action_ignores_ts(s, act) ==
    LET resolve == /\ s.await_post_state_action_id # None
                   /\ s.await_post_state_action_ts # None
        s1 == IF resolve
              THEN [s EXCEPT
                    !.graph = add_edge(s.graph, Val(s.await_post_state_action_id), act.id,
                                       act.ts - Val(s.await_post_state_action_ts)),
                    !.await_post_state_action_id = None,
                    !.await_post_state_action_ts = None]
              ELSE s
    IN [s1 EXCEPT !.last_state_id = Some(act.id),
                  !.last_state_ts = Some(act.ts),
                  !.last_action_id = Some(act.id),
                  !.last_action_ts = Some(act.ts)]

\* the STATE branch that also reports the resolved link to the predictor
append_state_action_observes(s, act) ==
    LET resolve == /\ s.await_post_state_action_id # None
                   /\ s.await_post_state_action_ts # None
                   /\ act.ts >= Val(s.await_post_state_action_ts)
        s1 == IF resolve
              THEN [s EXCEPT
                    !.graph = add_edge(s.graph, Val(s.await_post_state_action_id), act.id,
                                       act.ts - Val(s.await_post_state_action_ts)),
                    !.predictor = observe(s.predictor, Val(s.await_post_state_action_id),
                                          act.id),
                    !.await_post_state_action_id = None,
                    !.await_post_state_action_ts = None]
              ELSE s
    IN [s1 EXCEPT !.last_state_id = Some(act.id),
                  !.last_state_ts = Some(act.ts),
                  !.last_action_id = Some(act.id),
                  !.last_action_ts = Some(act.ts)]

\* the STATE branch of append_action (store.py 85-102)
append_state_action(s, act) ==
    LET resolve == /\ s.await_post_state_action_id # None
                   /\ s.await_post_state_action_ts # None
                   /\ act.ts >= Val(s.await_post_state_action_ts)
        s1 == IF resolve
              THEN [s EXCEPT
                    !.graph = add_edge(s.graph, Val(s.await_post_state_action_id), act.id,
                                       act.ts - Val(s.await_post_state_action_ts)),
                    !.await_post_state_action_id = None,
                    !.await_post_state_action_ts = None]
              ELSE s
    IN [s1 EXCEPT !.last_state_id = Some(act.id),
                  !.last_state_ts = Some(act.ts),
                  !.last_action_id = Some(act.id),
                  !.last_action_ts = Some(act.ts)]

\* the parent choice with the two branches swapped: the last workflow action first
link_workflow_action_prefers_workflow(s, act) ==
    IF s.last_workflow_action_id # None /\ s.last_workflow_action_ts # None
    THEN [s EXCEPT
          !.graph = add_edge(s.graph, Val(s.last_workflow_action_id), act.id,
                             act.ts - Val(s.last_workflow_action_ts)),
          !.predictor = observe(s.predictor, Val(s.last_workflow_action_id), act.id)]
    ELSE IF s.last_state_id # None /\ s.last_state_ts # None
    THEN [s EXCEPT
          !.graph = add_edge(s.graph, Val(s.last_state_id), act.id, act.ts - Val(s.last_state_ts)),
          !.predictor = observe(s.predictor, Val(s.last_state_id), act.id)]
    ELSE s

\* the parent choice that links the last workflow action even when a state was seen
link_workflow_action_always_falls_back(s, act) ==
    LET s1 == IF s.last_state_id # None /\ s.last_state_ts # None
              THEN [s EXCEPT
                    !.graph = add_edge(s.graph, Val(s.last_state_id), act.id,
                                       act.ts - Val(s.last_state_ts)),
                    !.predictor = observe(s.predictor, Val(s.last_state_id), act.id)]
              ELSE s
    IN IF s.last_workflow_action_id # None /\ s.last_workflow_action_ts # None
       THEN [s1 EXCEPT
             !.graph = add_edge(s1.graph, Val(s.last_workflow_action_id), act.id,
                                act.ts - Val(s.last_workflow_action_ts)),
             !.predictor = observe(s1.predictor, Val(s.last_workflow_action_id), act.id)]
       ELSE s1

\* the parent choice of a workflow action (store.py 108-116)
link_workflow_action(s, act) ==
    IF s.last_state_id # None /\ s.last_state_ts # None
    THEN [s EXCEPT
          !.graph = add_edge(s.graph, Val(s.last_state_id), act.id, act.ts - Val(s.last_state_ts)),
          !.predictor = observe(s.predictor, Val(s.last_state_id), act.id)]
    ELSE IF s.last_workflow_action_id # None /\ s.last_workflow_action_ts # None
    THEN [s EXCEPT
          !.graph = add_edge(s.graph, Val(s.last_workflow_action_id), act.id,
                             act.ts - Val(s.last_workflow_action_ts)),
          !.predictor = observe(s.predictor, Val(s.last_workflow_action_id), act.id)]
    ELSE s

\* the workflow branch that keeps a pending slot that is still unresolved
append_workflow_action_keeps_unresolved(s, act) ==
    LET s1 == [link_workflow_action(s, act) EXCEPT
                  !.last_workflow_action_id = Some(act.id),
                  !.last_workflow_action_ts = Some(act.ts)]
    IN IF s.await_post_state_action_id # None THEN s1
       ELSE [s1 EXCEPT !.await_post_state_action_id = Some(act.id),
                       !.await_post_state_action_ts = Some(act.ts)]

\* the workflow branch of append_action (store.py 107-123)
append_workflow_action(s, act) ==
    [link_workflow_action(s, act) EXCEPT
        !.last_workflow_action_id = Some(act.id),
        !.last_workflow_action_ts = Some(act.ts),
        !.await_post_state_action_id = Some(act.id),
        !.await_post_state_action_ts = Some(act.ts)]

\* append_action: the history (store.py 76-78)
append_action_history(s, act) ==
    LET acts == Append(s.actions, act)
    IN [s EXCEPT !.actions = IF Len(acts) > s.max_events THEN LastN(acts, s.max_events)
                              ELSE acts]

\* append_action: the node (store.py 81)
append_action_touch(s, act) ==
    [s EXCEPT !.graph = touch_node(s.graph, act.id, act.label, act.kind)]

\* append_action: the edges and the context pointers (store.py 85-127)
append_action_link(s, act) ==
    IF act.kind = STATE_KIND THEN append_state_action(s, act)
    ELSE LET s2 == IF is_workflow_kind(act.kind) THEN append_workflow_action(s, act) ELSE s
         IN [s2 EXCEPT !.last_action_id = Some(act.id), !.last_action_ts = Some(act.ts)]

append_action(s, act) ==
    append_action_link(append_action_touch(append_action_history(s, act), act), act)

\* snapshot_graph with a median that sorts the stored samples in place
snapshot_graph_sorts_in_place(s, now_ms) ==
    [store |-> [s EXCEPT !.graph.edges = [i \in DOMAIN s.graph.edges |->
                    <<s.graph.edges[i][1],
                      [s.graph.edges[i][2] EXCEPT
                         !.dts = SortSeq(s.graph.edges[i][2].dts, LAMBDA x, y : x < y)]>>]],
     out |-> snapshot(s.graph, now_ms)]

\* The read operations yield the store as the call leaves it and the value returned.
Call(s, out) == [store |-> s, out |-> out]

snapshot_graph(s, now_ms) == Call(s, snapshot(s.graph, now_ms))

get_last_action_id(s) == s.last_action_id
get_last_workflow_action_id(s) == s.last_workflow_action_id
get_last_state_id(s) == s.last_state_id

\* reset_context that forgets the state pointer
reset_context_keeps_state(s) ==
    [s EXCEPT !.last_action_id = None,
              !.last_action_ts = None,
              !.last_workflow_action_id = None,
              !.last_workflow_action_ts = None,
              !.await_post_state_action_id = None,
              !.await_post_state_action_ts = None]

\* reset_context that also starts the predictor afresh
reset_context_clears_predictor(s) ==
    [s EXCEPT !.predictor = MarkovPredictor,
              !.last_action_id = None,
              !.last_action_ts = None,
              !.last_workflow_action_id = None,
              !.last_workflow_action_ts = None,
              !.last_state_id = None,
              !.last_state_ts = None,
              !.await_post_state_action_id = None,
              !.await_post_state_action_ts = None]

\* reset_context that leaves the pending slot as it is
reset_context_keeps_pending(s) ==
    [s EXCEPT !.last_action_id = None,
              !.last_action_ts = None,
              !.last_workflow_action_id = None,
              !.last_workflow_action_ts = None,
              !.last_state_id = None,
              !.last_state_ts = None]

reset_context(s) ==
    [s EXCEPT !.last_action_id = None,
              !.last_action_ts = None,
              !.last_workflow_action_id = None,
              !.last_workflow_action_ts = None,
              !.last_state_id = None,
              !.last_state_ts = None,
              !.await_post_state_action_id = None,
              !.await_post_state_action_ts = None]

get_node_meta(s, node_id) ==
    IF ~DictHas(s.graph.node_meta, node_id) THEN None
    ELSE LET meta == DictGet(s.graph.node_meta, node_id, <<node_id, "OTHER">>)
         IN Some([id |-> node_id, label |-> meta[1], kind |-> meta[2],
                  count |-> DictGet(s.graph.node_counts, node_id, 0)])

\* predict_next with the context preference swapped: the last workflow action first
predict_next_prefers_workflow(s, k) ==
    LET ctx == IF Truthy(s.last_workflow_action_id) THEN s.last_workflow_action_id
               ELSE s.last_state_id
    IN IF ~Truthy(ctx) THEN [store |-> s, out |-> << >>]
       ELSE LET top == top_k(s.predictor, Val(ctx), k)
            IN [store |-> s, out |-> [i \in DOMAIN top |->
                  LET nid == top[i][1]
                      meta == DictGet(s.graph.node_meta, nid, <<nid, "OTHER">>)
                  IN [id |-> nid, label |-> meta[1], kind |-> meta[2], count |-> top[i][2]]]]

predict_next(s, k) ==
    LET ctx == IF Truthy(s.last_state_id) THEN s.last_state_id ELSE s.last_workflow_action_id
    IN IF ~Truthy(ctx) THEN Call(s, << >>)
       ELSE LET top == top_k(s.predictor, Val(ctx), k)
            IN Call(s, [i \in DOMAIN top |->
                  LET nid == top[i][1]
                      meta == DictGet(s.graph.node_meta, nid, <<nid, "OTHER">>)
                  IN [id |-> nid, label |-> meta[1], kind |-> meta[2], count |-> top[i][2]]])

\* clear that leaves the predictor as it is
clear_keeps_predictor(s) ==
    [reset_context(s) EXCEPT !.events = << >>, !.actions = << >>, !.graph = GraphState]

\* clear that leaves the context pointers as they are
clear_keeps_context(s) ==
    [s EXCEPT !.events = << >>,
              !.actions = << >>,
              !.graph = GraphState,
              !.predictor = MarkovPredictor]

clear(s) ==
    [s EXCEPT !.events = << >>,
              !.actions = << >>,
              !.graph = GraphState,
              !.predictor = MarkovPredictor,
              !.last_action_id = None,
              !.last_action_ts = None,
              !.last_workflow_action_id = None,
              !.last_workflow_action_ts = None,
              !.last_state_id = None,
              !.last_state_ts = None,
              !.await_post_state_action_id = None,
              !.await_post_state_action_ts = None]

\* ------------------------------------------------------------------ schemas.py, main.py

EventType == {"PAGE_READY", "POINTER_DOWN", "KEY_SHORTCUT", "KEY_DOWN", "URL_CHANGED",
              "NAV_COMMITTED", "TAB_CREATED", "TAB_CLOSED", "DOM_MUTATION", "STATE_SNAPSHOT"}

\* A payload is a record; a field that may be null holds an Optional.
EmptyPayload == [k \in {} |-> None]
RawEvent(ts, source, type, url, payload) ==
    [v |-> 1, ts |-> ts, source |-> source, type |-> type, url |-> url, title |-> None,
     payload |-> payload]

\* payload.get(key)
Get(payload, key) == IF key \in DOMAIN payload THEN payload[key] ELSE None
\* str(x or "")
OrEmpty(o) == IF Truthy(o) THEN Val(o) ELSE ""
\* str(x)
PyStr(o) == IF o = None THEN "None" ELSE Val(o)
\* payload.get("testids") or []
TestIds(payload) == IF "testids" \in DOMAIN payload THEN payload.testids ELSE << >>

\* hashlib.sha1(sig.encode("utf-8")).hexdigest()[:10], taken to be free of collisions
sha1_hex10(sig) == "sha1(" \o sig \o ")"

\* the key of a click with the accessible name preferred to the test id
click_key_prefers_aria(payload) ==
    IF Truthy(Get(payload, "ariaLabel")) THEN "aria=" \o Val(payload.ariaLabel)
    ELSE IF Truthy(Get(payload, "testid")) THEN "testid=" \o Val(payload.testid)
    ELSE IF Truthy(Get(payload, "id")) THEN "id=" \o Val(payload.id)
    ELSE "sel=" \o OrEmpty(Get(payload, "selector"))

\* the semantic key of a click (main.py 48-55)
click_key(payload) ==
    IF Truthy(Get(payload, "testid")) THEN "testid=" \o Val(payload.testid)
    ELSE IF Truthy(Get(payload, "ariaLabel")) THEN "aria=" \o Val(payload.ariaLabel)
    ELSE IF Truthy(Get(payload, "id")) THEN "id=" \o Val(payload.id)
    ELSE "sel=" \o OrEmpty(Get(payload, "selector"))

action_id_for(kind, host, path, payload) ==
    CASE kind = "CLICK" -> "CLICK:" \o host \o path \o ":" \o scrub_text(click_key(payload), 160)
      [] kind = "SHORTCUT" -> "SHORTCUT:" \o scrub_text(OrEmpty(Get(payload, "combo")), 80)
      [] kind = "KEYBOARD" -> "KEY:" \o scrub_text(OrEmpty(Get(payload, "key")), 40)
      [] kind = "NAV" -> "NAV:" \o host \o path
      [] kind = "TAB" -> "TAB:" \o host \o path
      [] kind = "DOM" -> "DOM:" \o host \o path
      [] kind = "STATE" ->
           LET given == IF "sig" \in DOMAIN payload THEN payload.sig ELSE ""
               sig == scrub_text(IF given # "" THEN given ELSE Join("|", TestIds(payload)), 500)
               h == IF sig # "" THEN sha1_hex10(sig) ELSE "empty"
           IN "STATE:" \o host \o path \o ":" \o h
      [] OTHER -> "OTHER:" \o host \o path \o ":" \o kind

\* " +" followed by the decimal digits of n, for the n the model reaches
PlusCount(n) == " +" \o CodePoints[Ord("0") + n]

label_for_action(kind, host, path, payload) ==
    CASE kind = "CLICK" ->
           LET role == scrub_text(OrEmpty(Get(payload, "tag")), 12)
               a == scrub_text(OrEmpty(Get(payload, "ariaLabel")), 64)
               t == scrub_text(OrEmpty(Get(payload, "testid")), 64)
               i == scrub_text(OrEmpty(Get(payload, "id")), 64)
               bits == SelectSeq(<<a, t, i>>, LAMBDA b : b # "")
               selector == scrub_text(OrEmpty(Get(payload, "selector")), 90)
               hint == IF bits # << >> THEN Join(" / ", bits)
                       ELSE IF selector # "" THEN selector ELSE "(unknown element)"
           IN "Click [" \o role \o "] " \o hint \o "\n" \o host \o path
      [] kind = "SHORTCUT" -> "Shortcut " \o PyStr(Get(payload, "combo")) \o "\n" \o host \o path
      [] kind = "KEYBOARD" ->
           "Keyboard " \o scrub_text(OrEmpty(Get(payload, "key")), 40) \o "\n" \o host \o path
      [] kind = "NAV" -> "Navigate\n" \o host \o path
      [] kind = "TAB" -> "Tab\n" \o host \o path
      [] kind = "DOM" -> "DOM change\n" \o host \o path
      [] kind = "STATE" ->
           LET testids == TestIds(payload)
               shown == [i \in DOMAIN FirstN(testids, 4) |-> scrub_text(testids[i], 28)]
               given == IF "sig" \in DOMAIN payload THEN payload.sig ELSE ""
               preview == IF Len(testids) > 0
                          THEN Join(", ", shown)
                               \o (IF Len(testids) > 4 THEN PlusCount(Len(testids) - 4) ELSE "")
                          ELSE IF scrub_text(given, 80) # "" THEN scrub_text(given, 80)
                          ELSE "(no testids)"
           IN "State\n" \o preview \o "\n" \o host \o path
      [] OTHER -> kind \o "\n" \o host \o path

\* the action kind and the payload event_to_action derives from the event (main.py 134-173)
kind_of_event(ev) ==
    CASE ev.type = "POINTER_DOWN" -> "CLICK"
      [] ev.type = "KEY_SHORTCUT" -> "SHORTCUT"
      [] ev.type = "KEY_DOWN" -> "KEYBOARD"
      [] ev.type \in {"NAV_COMMITTED", "URL_CHANGED"} -> "NAV"
      [] ev.type \in {"TAB_CREATED", "TAB_CLOSED"} -> "TAB"
      [] ev.type = "DOM_MUTATION" -> "DOM"
      [] ev.type = "STATE_SNAPSHOT" -> "STATE"
      [] OTHER -> "OTHER"

url_of_event(ev) ==
    IF ev.url # "" THEN ev.url
    ELSE IF Truthy(Get(ev.payload, "url")) THEN Val(ev.payload.url)
    ELSE IF Truthy(Get(ev.payload, "to")) THEN Val(ev.payload.to)
    ELSE ""

payload_of_event(ev) ==
    CASE ev.type = "POINTER_DOWN" ->
           [selector |-> Get(ev.payload, "selector"), tag |-> Get(ev.payload, "tag"),
            ariaLabel |-> Get(ev.payload, "ariaLabel"), testid |-> Get(ev.payload, "testid"),
            id |-> Get(ev.payload, "id")]
      [] ev.type = "KEY_SHORTCUT" -> [combo |-> Get(ev.payload, "combo")]
      [] ev.type = "KEY_DOWN" -> [key |-> Get(ev.payload, "key")]
      [] ev.type \in {"NAV_COMMITTED", "URL_CHANGED", "TAB_CREATED", "TAB_CLOSED"} ->
           [url |-> Some(url_of_event(ev))]
      [] ev.type = "DOM_MUTATION" ->
           [added |-> Get(ev.payload, "added"), removed |-> Get(ev.payload, "removed"),
            attrs |-> Get(ev.payload, "attrs")]
      [] ev.type = "STATE_SNAPSHOT" ->
           LET testids == SortedSet(TestIds(ev.payload))
           IN [reason |-> Get(ev.payload, "reason"), testids |-> testids,
               sig |-> scrub_text(Join("|", testids), 500), n |-> Len(testids)]
      [] OTHER -> EmptyPayload

event_to_action(ev) ==
    LET url == url_of_event(ev)
        host == safe_host(url)
        path == safe_path(url)
        kind == kind_of_event(ev)
        payload == payload_of_event(ev)
    IN [id |-> action_id_for(kind, host, path, payload),
        ts |-> ev.ts,
        kind |-> kind,
        url |-> url,
        host |-> host,
        path |-> path,
        label |-> label_for_action(kind, host, path, payload),
        payload |-> payload]

\* ------------------------------------------------------------------ recorder/playwright_agent.py

\* The agents are numbered in the order start_session constructs them.
AgentIds == 1..MaxAgents

\* An agent as constructed: no browser context, no session id.  call is the position of
\* the start_session call that constructed it ("none": not constructed yet), url the url
\* it was started with, stops the number of stop_session calls awaiting its stop().
PlaywrightAgent ==
    [call |-> "none", url |-> "", live |-> FALSE, session_id |-> None, stops |-> 0]

\* _emit_backend: the event the agent itself reports
emit_backend(agent, typ, payload, now) == RawEvent(now, "backend", typ, agent.url, payload)

\* _emit_binding (playwright_agent.py 294-312): the event handed to on_event, None if dropped
emit_binding(allowed_hosts, ev) ==
    IF ev.url # "" /\ safe_host(ev.url) \notin allowed_hosts THEN None
    ELSE IF ev.type = "POINTER_DOWN"
    THEN LET sel == OrEmpty(Get(ev.payload, "selector"))
         IN Some([ev EXCEPT !.payload =
               [k \in DOMAIN ev.payload \cup {"ariaLabel", "testid", "id", "selector"} |->
                  CASE k = "ariaLabel" -> Some(scrub_text(OrEmpty(Get(ev.payload, k)), 64))
                    [] k = "testid" -> Some(scrub_text(OrEmpty(Get(ev.payload, k)), 64))
                    [] k = "id" -> Some(scrub_text(OrEmpty(Get(ev.payload, k)), 64))
                    [] k = "selector" -> IF sel # "" THEN Some(StrPrefix(sel, 240)) ELSE None
                    [] OTHER -> ev.payload[k]]])
    ELSE IF ev.type = "KEY_SHORTCUT"
    THEN Some([ev EXCEPT !.payload =
               [k \in DOMAIN ev.payload \cup {"combo"} |->
                  IF k = "combo" THEN Some(scrub_text(OrEmpty(Get(ev.payload, k)), 32))
                  ELSE ev.payload[k]]])
    ELSE Some(ev)

\* ------------------------------------------------------------------ store.py: the lock

\* The tasks of the event loop that call the store: request handlers and agent callbacks.
TaskIds == 1..MaxTasks

\* A task outside the store.  pc is the part of its operation it executes next, sched
\* its standing with the event loop: off, ready, running, waiting (for the lock), woken.
Task == [pc |-> "idle", op |-> "none", arg |-> None, out |-> None, sched |-> "off"]

\* a lock that lets everyone in
locked_never(lock) == FALSE

\* asyncio.Lock.locked(): "async with self._lock" enters only when it is not
locked(lock) == lock # None

\* the parts of an operation's critical section, in the order they execute
first_pc(op) == IF op = "append_action" THEN "history" ELSE "body"
next_pc(pc) ==
    CASE pc = "history" -> "touch"
      [] pc = "touch" -> "link"
      [] OTHER -> "release"

\* the store after task record t executed the part t.pc of its operation
store_step(s, t) ==
    CASE t.pc = "history" -> append_action_history(s, Val(t.arg))
      [] t.pc = "touch" -> append_action_touch(s, Val(t.arg))
      [] t.pc = "link" -> append_action_link(s, Val(t.arg))
      [] t.pc = "body" /\ t.op = "reset_context" -> reset_context(s)
      [] t.pc = "body" /\ t.op = "clear" -> clear(s)
      [] OTHER -> s

\* the value a read operation of task record t returns from store s
store_read(s, t) ==
    CASE t.op = "snapshot_graph" -> Some(snapshot_graph(s, Val(t.arg)).out)
      [] t.op = "predict_next" -> Some(predict_next(s, Val(t.arg)).out)
      [] t.op = "get_node_meta" -> Some(get_node_meta(s, Val(t.arg)))
      [] OTHER -> None

\* the store after the whole operation of task record t
store_op(s, t) ==
    CASE t.op = "append_action" -> append_action(s, Val(t.arg))
      [] t.op = "reset_context" -> reset_context(s)
      [] t.op = "clear" -> clear(s)
      [] OTHER -> s

\* ------------------------------------------------------------------ state

VARIABLES
    store,          \* the AppStore (main.py: store = AppStore(max_events=...))
    ret,            \* the last completed operation, its argument and its result
    prev_snapshot,  \* history: the result of the operation before it, if a snapshot_graph
    link,           \* history: the edge sample the last append_action added, if any
    appended,       \* history: per id, the number of append_action calls so far
    cleared,        \* history: whether clear was ever called
    tags,           \* history: per context pointer, who set it and whether a reset followed
    agents,         \* the PlaywrightAgent objects constructed so far, and their callers
    conc            \* the store's lock and the tasks that call the store concurrently

vars == <<store, ret, prev_snapshot, link, appended, cleared, tags, agents, conc>>

Ret(op, arg, out) == [op |-> op, arg |-> arg, out |-> out]

\* The tag of a context pointer that holds no value.
NoTag == [stale |-> FALSE, src |-> None]
NoTags == [state |-> NoTag, workflow |-> NoTag, await |-> NoTag]

\* after append_action: a pointer assigned by this call is fresh and the caller's
TagAfterAppend(ptr, old, assigned, src) ==
    IF ptr = None THEN NoTag
    ELSE IF assigned THEN [stale |-> FALSE, src |-> src]
    ELSE old

\* after reset_context or clear: a pointer that still holds a value predates the reset
TagAfterReset(ptr, old) ==
    IF ptr = None THEN NoTag ELSE [old EXCEPT !.stale = TRUE]

TagsAfterReset(s) ==
    [state |-> TagAfterReset(s.last_state_id, tags.state),
     workflow |-> TagAfterReset(s.last_workflow_action_id, tags.workflow),
     await |-> TagAfterReset(s.await_post_state_action_id, tags.await)]

EdgeCountOf(s, key) == DictGet(s.graph.edges, key, EdgeStat).count
EdgeDtsOf(s, key) == DictGet(s.graph.edges, key, EdgeStat).dts
NodeCountOf(s, id) == DictGet(s.graph.node_counts, id, 0)
TransitionCountOf(s, key) == DictGet(s.predictor.transitions, key, 0)

\* the edges that gained a sample between two store values
AddedEdges(s, t) == {key \in DictKeys(t.graph.edges) : EdgeCountOf(t, key) # EdgeCountOf(s, key)}

\* the tag of the pointer append_action reads as the parent of act (store.py 86-116)
ParentTag(s, act) ==
    IF act.kind = STATE_KIND THEN tags.await
    ELSE IF s.last_state_id # None THEN tags.state
    ELSE tags.workflow

RECURSIVE SumOver(_, _)
SumOver(f, S) ==
    IF S = {} THEN 0
    ELSE LET x == CHOOSE y \in S : TRUE IN f[x] + SumOver(f, S \ {x})

CountAppended(id) == IF id \in DOMAIN appended THEN appended[id] ELSE 0
TotalAppended == SumOver(appended, DOMAIN appended)

Init ==
    /\ store = AppStore(MaxEvents)
    /\ ret = Ret("init", None, None)
    /\ prev_snapshot = None
    /\ link = None
    /\ appended = << >>
    /\ cleared = FALSE
    /\ tags = NoTags
    /\ agents = [a \in AgentIds |-> PlaywrightAgent]
    /\ conc = [lock |-> None, tasks |-> [t \in TaskIds |-> Task], ops |-> 0,
               serial |-> AppStore(MaxEvents)]

\* The store becomes s1 by a call that appended act on behalf of src (None: a direct caller).
Appended(s1, act, src) ==
    /\ TotalAppended < MaxAppends
    /\ store' = s1
    /\ ret' = Ret("append_action", Some(act), None)
    /\ prev_snapshot' = None
    /\ appended' = IF act.id \in DOMAIN appended THEN [appended EXCEPT ![act.id] = @ + 1]
                   ELSE appended @@ (act.id :> 1)
    /\ link' = LET added == AddedEdges(store, store')
               IN IF added = {} THEN None
                  ELSE LET key == CHOOSE k \in added : TRUE
                           tag == ParentTag(store, act)
                       IN Some([frm |-> key[1], to |-> key[2], stale |-> tag.stale,
                                src_from |-> tag.src, src_to |-> src])
    /\ tags' = [state |-> TagAfterAppend(store'.last_state_id, tags.state,
                                        act.kind = STATE_KIND, src),
                workflow |-> TagAfterAppend(store'.last_workflow_action_id, tags.workflow,
                                           is_workflow_kind(act.kind), src),
                await |-> TagAfterAppend(store'.await_post_state_action_id, tags.await,
                                        is_workflow_kind(act.kind), src)]
    /\ UNCHANGED <<cleared, conc>>

\* await store.append_action(act)
AppendAction(act, src) ==
    /\ Appended(append_action(store, act), act, src)
    /\ UNCHANGED agents

\* await store.reset_context()
ResetContext ==
    /\ store' = reset_context(store)
    /\ ret' = Ret("reset_context", None, None)
    /\ prev_snapshot' = None
    /\ link' = None
    /\ tags' = TagsAfterReset(store')
    /\ UNCHANGED <<conc, appended, cleared, agents>>

\* await store.clear()
Clear ==
    /\ store' = clear(store)
    /\ ret' = Ret("clear", None, None)
    /\ prev_snapshot' = None
    /\ link' = None
    /\ tags' = TagsAfterReset(store')
    /\ cleared' = TRUE
    /\ UNCHANGED <<conc, appended, agents>>

\* await store.snapshot_graph(), the clock reading now
SnapshotGraph(now) ==
    LET call == snapshot_graph(store, now)
    IN /\ store' = call.store
       /\ ret' = Ret("snapshot_graph", Some(now), Some(call.out))
       /\ prev_snapshot' = IF ret.op = "snapshot_graph" THEN ret.out ELSE None
       /\ link' = None
       /\ UNCHANGED <<conc, appended, cleared, tags, agents>>

\* await store.predict_next(k)
PredictNext(k) ==
    LET call == predict_next(store, k)
    IN /\ store' = call.store
       /\ ret' = Ret("predict_next", Some(k), Some(call.out))
       /\ prev_snapshot' = None
       /\ link' = None
       /\ UNCHANGED <<conc, appended, cleared, tags, agents>>

\* ------------------------------------------------------------------ the store's callers

\* The linking state machine: actions of every id and timestamp, one kind of each class
\* (a state snapshot, a workflow kind, a context kind).
LinkActions == [id : Ids, ts : Timestamps, kind : {"STATE", "CLICK", "DOM"}, label : {"L1"}]

Next ==
    \/ \E act \in LinkActions : AppendAction(act, None)
    \/ ResetContext
    \/ Clear

Spec == Init /\ [][Next]_vars

\* The prediction query: actions of every id at one timestamp, and predict_next.
PredictActions == [id : Ids, ts : {0}, kind : {"STATE", "CLICK", "DOM"}, label : {"L1"}]

NextPredict ==
    \/ \E act \in PredictActions : AppendAction(act, None)
    \/ ResetContext
    \/ Clear
    \/ \E k \in 0..MaxK : PredictNext(k)

SpecPredict == Init /\ [][NextPredict]_vars

\* The graph snapshot: the actions that make edges, at every timestamp, and snapshot_graph.
SnapshotActions == [id : Ids, ts : Timestamps, kind : {"STATE", "CLICK"}, label : {"L1"}]

NextSnapshot ==
    \/ \E act \in SnapshotActions : AppendAction(act, None)
    \/ \E now \in Timestamps : SnapshotGraph(now)

SpecSnapshot == Init /\ [][NextSnapshot]_vars

\* ------------------------------------------------------------------ main.py: the session lifecycle

\* settings.allowed_hosts
allowed_hosts == {"localhost:3000"}

\* on_event (main.py 190-194).  The memory hints and the websocket broadcasts that follow
\* do not touch the store's graph, predictor or context and are left out.
on_event(s, ev) == append_action(append_event(s, ev), event_to_action(ev))

\* start_session that keeps the linking context of the session before
start_session_begin_keeps_context(s, a) ==
    [set_recording(s, FALSE, None) EXCEPT !.agent = Some(a)]

\* start_session from the session boundary to the agent's construction (main.py 237-245)
start_session_begin(s, a) ==
    [reset_context(set_recording(s, FALSE, None)) EXCEPT !.agent = Some(a)]

\* start_session after agent.start returned (main.py 258)
start_session_end(s, session_id) == set_recording(s, TRUE, session_id)

\* start_session after agent.start raised (main.py 251)
start_session_failed(s) == [s EXCEPT !.agent = None]

\* stop_session that also resets the linking context
stop_session_end_resets_context(s) ==
    reset_context(set_recording([s EXCEPT !.agent = None], FALSE, None))

\* the finally block of stop_session (main.py 271-272)
stop_session_end(s) == set_recording([s EXCEPT !.agent = None], FALSE, None)

Response(ok, status, session_id) == [ok |-> ok, status |-> status, session_id |-> session_id]

\* No start_session or stop_session call is awaiting its agent.
NoCallInFlight ==
    \A a \in AgentIds : agents[a].call \notin {"awaiting", "emitted"} /\ agents[a].stops = 0

\* POST /api/session/start up to its first await of the agent (main.py 223-248).  The
\* launch of the browser (playwright_agent.py 207-219) is part of the step: from here on
\* the agent's pages may report events.
StartSession(url) ==
    LET u == Strip(url)
    IN /\ prev_snapshot' = None
       /\ link' = None
       /\ UNCHANGED <<conc, appended, cleared>>
       /\ IF store.recording
          THEN /\ ret' = Ret("start_session", Some(url),
                             Some(Response(TRUE, 200, store.session_id)))
               /\ UNCHANGED <<store, tags, agents>>
          ELSE IF safe_host(u) \notin allowed_hosts
          THEN /\ ret' = Ret("start_session", Some(url), Some(Response(FALSE, 400, None)))
               /\ UNCHANGED <<store, tags, agents>>
          ELSE \E a \in AgentIds :
               /\ agents[a].call = "none"
               /\ \A b \in 1..(a - 1) : agents[b].call # "none"
               /\ store' = start_session_begin(store, a)
               /\ tags' = TagsAfterReset(store')
               /\ agents' = [agents EXCEPT ![a] = [call |-> "awaiting", url |-> u, live |-> TRUE,
                                                   session_id |-> Some(a), stops |-> 0]]
               /\ ret' = Ret("start_session:await", Some(url), None)

\* the page of agent a reports an event through the binding (playwright_agent.py 294-312)
AgentEmits(a, ev) ==
    /\ agents[a].live
    /\ LET e == emit_binding(allowed_hosts, ev)
       IN IF e = None
          THEN /\ ret' = Ret("emit_binding", Some(ev), None)
               /\ prev_snapshot' = None
               /\ link' = None
               /\ UNCHANGED <<conc, store, appended, cleared, tags>>
          ELSE Appended(on_event(store, Val(e)), event_to_action(Val(e)), Some(a))
    /\ UNCHANGED agents

\* agent.start reports TAB_CREATED as its last act (playwright_agent.py 233)
StartEmitsTab(a, now) ==
    /\ agents[a].call = "awaiting" /\ agents[a].live
    /\ LET ev == emit_backend(agents[a], "TAB_CREATED",
                              [url |-> Some(agents[a].url),
                               session_id |-> agents[a].session_id], now)
       IN Appended(on_event(store, ev), event_to_action(ev), Some(a))
    /\ agents' = [agents EXCEPT ![a].call = "emitted"]

\* agent.start returned the session id (playwright_agent.py 234, main.py 258-259)
StartSessionReturns(a) ==
    /\ agents[a].call = "emitted"
    /\ store' = start_session_end(store, agents[a].session_id)
    /\ agents' = [agents EXCEPT ![a].call = "returned"]
    /\ ret' = Ret("start_session", Some(agents[a].url),
                  Some(Response(TRUE, 200, agents[a].session_id)))
    /\ prev_snapshot' = None
    /\ link' = None
    /\ UNCHANGED <<conc, appended, cleared, tags>>

\* agent.start raised: the launch or the navigation failed, the agent is stopped
\* (playwright_agent.py 225-230, main.py 249-256)
StartSessionFails(a) ==
    /\ agents[a].call = "awaiting"
    /\ store' = start_session_failed(store)
    /\ agents' = [agents EXCEPT ![a].call = "failed", ![a].live = FALSE,
                                ![a].session_id = None]
    /\ ret' = Ret("start_session", Some(agents[a].url), Some(Response(FALSE, 500, None)))
    /\ prev_snapshot' = None
    /\ link' = None
    /\ UNCHANGED <<conc, appended, cleared, tags>>

\* POST /api/session/stop up to its await of agent.stop() (main.py 264-269); ret.arg is
\* the agent the call stops
StopSession ==
    /\ prev_snapshot' = None
    /\ link' = None
    /\ UNCHANGED <<conc, appended, cleared, tags>>
    /\ IF ~store.recording
       THEN /\ ret' = Ret("stop_session", None, Some(Response(TRUE, 200, None)))
            /\ UNCHANGED <<store, agents>>
       ELSE IF store.agent # None
       THEN /\ agents' = [agents EXCEPT ![Val(store.agent)].stops = @ + 1]
            /\ ret' = Ret("stop_session:await", store.agent, None)
            /\ UNCHANGED store
       ELSE /\ store' = stop_session_end(store)
            /\ ret' = Ret("stop_session", None, Some(Response(TRUE, 200, None)))
            /\ UNCHANGED agents

\* agent.stop() returned to stop_session: the browser context is closed, the agent reports
\* nothing from here on (playwright_agent.py 236-261, main.py 270-274)
StopSessionReturns(a) ==
    /\ agents[a].stops > 0
    /\ store' = stop_session_end(store)
    /\ agents' = [agents EXCEPT ![a].stops = @ - 1, ![a].live = FALSE, ![a].session_id = None]
    /\ ret' = Ret("stop_session", Some(a), Some(Response(TRUE, 200, None)))
    /\ prev_snapshot' = None
    /\ link' = None
    /\ UNCHANGED <<conc, appended, cleared, tags>>

\* The events the recorded pages report: a click, a state snapshot and a DOM mutation on
\* an allowed host, and a click on a host that is not allowed.  Their timestamps do not
\* matter to the lifecycle and are all 0.
ClickPayload ==
    [selector |-> Some("button#save"), tag |-> Some("button"), ariaLabel |-> None,
     testid |-> Some("save"), id |-> None]
InjectedEvents ==
    {RawEvent(0, "injected", "POINTER_DOWN", "http://localhost:3000/app", ClickPayload),
     RawEvent(0, "injected", "STATE_SNAPSHOT", "http://localhost:3000/app",
              [reason |-> Some("mutation"), testids |-> <<"save", "open">>]),
     RawEvent(0, "injected", "DOM_MUTATION", "http://localhost:3000/app",
              [added |-> Some(1), removed |-> Some(0), attrs |-> Some(0)]),
     RawEvent(0, "injected", "POINTER_DOWN", "http://evil.test/", ClickPayload)}

StartUrls == {"http://localhost:3000/", "http://evil.test/"}

\* The session lifecycle driven by one client: the HTTP calls follow one another, each
\* issued after the one before has returned; the agents' events arrive at any time.
NextSeq ==
    \/ NoCallInFlight /\ \E url \in StartUrls : StartSession(url)
    \/ \E a \in AgentIds : StartEmitsTab(a, 0)
    \/ \E a \in AgentIds : StartSessionReturns(a)
    \/ \E a \in AgentIds : StartSessionFails(a)
    \/ \E a \in AgentIds, ev \in InjectedEvents : AgentEmits(a, ev)
    \/ NoCallInFlight /\ StopSession
    \/ \E a \in AgentIds : StopSessionReturns(a)
    \/ NoCallInFlight /\ Clear

SpecSeq == Init /\ [][NextSeq]_vars

\* The session lifecycle driven by concurrent clients: a start_session or stop_session
\* request may arrive while another is awaiting its agent (each handler runs on the
\* event loop up to its await of agent.start() or agent.stop()).
NextRace ==
    \/ \E url \in StartUrls : StartSession(url)
    \/ \E a \in AgentIds : StartEmitsTab(a, 0)
    \/ \E a \in AgentIds : StartSessionReturns(a)
    \/ \E a \in AgentIds : StartSessionFails(a)
    \/ \E a \in AgentIds, ev \in InjectedEvents : AgentEmits(a, ev)
    \/ (\A a \in AgentIds : agents[a].stops < MaxStops) /\ StopSession
    \/ \E a \in AgentIds : StopSessionReturns(a)

SpecRace == Init /\ [][NextRace]_vars

\* ------------------------------------------------------------------ the predictor on its own

\* the number of observe calls a predictor has seen
Observed(p) == SeqSum([i \in DOMAIN p.transitions |-> p.transitions[i][2]])

\* self.predictor.observe(a, b)
Observe(a, b) ==
    /\ Observed(store.predictor) < MaxObserve
    /\ store' = [store EXCEPT !.predictor = observe(store.predictor, a, b)]
    /\ ret' = Ret("observe", Some(<<a, b>>), None)
    /\ prev_snapshot' = None
    /\ link' = None
    /\ UNCHANGED <<conc, appended, cleared, tags, agents>>

\* self.predictor.top_k(a, k)
TopK(a, k) ==
    /\ ret' = Ret("top_k", Some(<<a, k>>), Some(top_k(store.predictor, a, k)))
    /\ prev_snapshot' = None
    /\ link' = None
    /\ UNCHANGED <<conc, store, appended, cleared, tags, agents>>

NextTopK ==
    \/ \E a \in Ids, b \in Ids : Observe(a, b)
    \/ \E a \in Ids, k \in 0..(MaxK + 1) : TopK(a, k)

SpecTopK == Init /\ [][NextTopK]_vars

\* ------------------------------------------------------------------ node metadata

\* Actions of every id, label and class of kind, at one timestamp.
MetaActions == [id : Ids, ts : {0}, kind : {"STATE", "CLICK", "DOM"}, label : Labels]

NextMeta ==
    \/ \E act \in MetaActions : AppendAction(act, None)
    \/ ResetContext
    \/ Clear

SpecMeta == Init /\ [][NextMeta]_vars

\* ------------------------------------------------------------------ concurrent callers

\* The operations the tasks call: appends of a state snapshot and a click of every id,
\* the two resets and the three reads.
ConcOps ==
    {<<"append_action", Some(act)>> :
        act \in [id : Ids, ts : {0}, kind : {"STATE", "CLICK"}, label : {"L1"}]}
    \cup {<<"reset_context", None>>, <<"clear", None>>,
          <<"snapshot_graph", Some(0)>>, <<"predict_next", Some(MaxK)>>}
    \cup {<<"get_node_meta", Some(id)>> : id \in Ids}

\* Task t calls an operation and enters "async with self._lock".  The event loop may run
\* any task at any step; between tasks the lock alone decides who enters.  conc.serial
\* is the store the whole operations yield when applied one after the other in the
\* order in which they entered.
Enter(t, op) ==
    /\ conc.tasks[t].pc = "idle"
    /\ conc.ops < MaxOps
    /\ ~locked(conc.lock)
    /\ LET task == [Task EXCEPT !.pc = first_pc(op[1]), !.op = op[1], !.arg = op[2]]
       IN conc' = [lock |-> Some(t),
                   tasks |-> [conc.tasks EXCEPT ![t] = task],
                   ops |-> conc.ops + 1,
                   serial |-> store_op(conc.serial, task)]
    /\ UNCHANGED <<store, ret, prev_snapshot, link, appended, cleared, tags, agents>>

\* Task t executes the next part of its critical section.
Proceed(t) ==
    /\ conc.tasks[t].pc \in {"history", "touch", "link", "body"}
    /\ store' = store_step(store, conc.tasks[t])
    /\ conc' = [conc EXCEPT !.tasks[t].pc = next_pc(@),
                            !.tasks[t].out = store_read(store, conc.tasks[t])]
    /\ UNCHANGED <<ret, prev_snapshot, link, appended, cleared, tags, agents>>

\* Task t leaves the critical section and its operation returns.
Leave(t) ==
    /\ conc.tasks[t].pc = "release"
    /\ conc' = [conc EXCEPT !.lock = None, !.tasks[t] = Task]
    /\ ret' = Ret(conc.tasks[t].op, conc.tasks[t].arg, conc.tasks[t].out)
    /\ prev_snapshot' = None
    /\ link' = None
    /\ UNCHANGED <<store, appended, cleared, tags, agents>>

NextConc ==
    \/ \E t \in TaskIds, op \in ConcOps : Enter(t, op)
    \/ \E t \in TaskIds : Proceed(t)
    \/ \E t \in TaskIds : Leave(t)

SpecConc == Init /\ [][NextConc]_vars

\* ------------------------------------------------------------------ identity derivation

\* the lists of at most n elements of S
RECURSIVE ListsUpTo(_, _)
ListsUpTo(S, n) ==
    IF n = 0 THEN {<< >>}
    ELSE LET shorter == ListsUpTo(S, n - 1)
         IN shorter \cup {Append(l, x) : l \in shorter, x \in S}

PageUrls == {"http://localhost:3000/", "http://localhost:3000/app"}

\* State snapshots of every list of test ids, and one whose payload has no list.
StateEvents ==
    {RawEvent(0, "injected", "STATE_SNAPSHOT", url, [reason |-> Some("mutation"), testids |-> l])
        : url \in PageUrls, l \in ListsUpTo({"a", "b"}, MaxTestIds)}
    \cup {RawEvent(0, "injected", "STATE_SNAPSHOT", url, EmptyPayload) : url \in PageUrls}

\* Pointer events with every combination of the identifying fields null, empty or set.
ClickPayloads ==
    [x : {0, 1}, tag : {Some("button"), Some("div")},
     testid : {None, Some(""), Some("save"), Some("open")},
     ariaLabel : {None, Some("Save")}, id : {None, Some("btn")},
     selector : {None, Some("button#x")}]
ClickEvents ==
    {RawEvent(0, "injected", "POINTER_DOWN", url, p) : url \in PageUrls, p \in ClickPayloads}

\* act = event_to_action(ev)
Derive(ev) ==
    /\ ret' = Ret("event_to_action", Some(ev), Some(event_to_action(ev)))
    /\ prev_snapshot' = None
    /\ link' = None
    /\ UNCHANGED <<conc, store, appended, cleared, tags, agents>>

NextIdentity ==
    \/ \E ev \in StateEvents : Derive(ev)
    \/ \E ev \in ClickEvents : Derive(ev)

SpecIdentity == Init /\ [][NextIdentity]_vars

\* ------------------------------------------------------------------ the graph on its own

\* the number of samples a graph holds
Samples(g) == SeqSum([i \in DOMAIN g.edges |-> Len(g.edges[i][2].dts)])

\* self.graph.add_edge(frm, to, dt)
AddEdge(frm, to, dt) ==
    /\ Samples(store.graph) < MaxSamples
    /\ store' = [store EXCEPT !.graph = add_edge(store.graph, frm, to, dt)]
    /\ ret' = Ret("add_edge", Some(<<frm, to, dt>>), None)
    /\ prev_snapshot' = None
    /\ link' = None
    /\ UNCHANGED <<conc, appended, cleared, tags, agents>>

NextEdgeStats ==
    \/ \E to \in Ids, dt \in (-1)..MaxDt : AddEdge("a", to, dt)
    \/ SnapshotGraph(0)

SpecEdgeStats == Init /\ [][NextEdgeStats]_vars

\* ------------------------------------------------------------------ the histories

\* The store constructed with any max_events from 0 up: AppStore takes the value as it
\* is given (store.py 31-33) and Settings reads it from the environment unchecked.
InitHistory ==
    /\ \E max_events \in 0..MaxEvents : store = AppStore(max_events)
    /\ ret = Ret("init", None, None)
    /\ prev_snapshot = None
    /\ link = None
    /\ appended = << >>
    /\ cleared = FALSE
    /\ tags = NoTags
    /\ agents = [a \in AgentIds |-> PlaywrightAgent]
    /\ conc = [lock |-> None, tasks |-> [t \in TaskIds |-> Task], ops |-> 0,
               serial |-> AppStore(MaxEvents)]

\* await on_event(ev)
Ingest(ev) ==
    /\ Appended(on_event(store, ev), event_to_action(ev), None)
    /\ UNCHANGED agents

NextHistory ==
    \/ \E ev \in {e \in InjectedEvents : safe_host(e.url) \in allowed_hosts} : Ingest(ev)
    \/ ResetContext
    \/ Clear

SpecHistory == InitHistory /\ [][NextHistory]_vars

\* ------------------------------------------------------------------ the store's operations side by side

\* await store.append_event(ev)
AppendEvent(ev) ==
    /\ store' = append_event(store, ev)
    /\ ret' = Ret("append_event", Some(ev), None)
    /\ prev_snapshot' = None
    /\ link' = None
    /\ UNCHANGED <<conc, appended, cleared, tags, agents>>

\* await store.set_recording(on, session_id)
SetRecording(on, sid) ==
    /\ store' = set_recording(store, on, sid)
    /\ ret' = Ret("set_recording", Some(on), None)
    /\ prev_snapshot' = None
    /\ link' = None
    /\ UNCHANGED <<conc, appended, cleared, tags, agents>>

\* Every public operation of the store, called in any order: a state snapshot at
\* time 0 and a click at every timestamp, one raw event, the two recording states, the two queries,
\* reset and clear.
StoreActions ==
    [id : {"a"}, ts : {0}, kind : {"STATE"}, label : {"L1"}]
      \cup [id : {"b"}, ts : Timestamps, kind : {"CLICK"}, label : {"L1"}]
StoreEvent ==
    RawEvent(0, "injected", "DOM_MUTATION", "http://localhost:3000/app",
             [added |-> Some(1), removed |-> Some(0), attrs |-> Some(0)])

NextStore ==
    \/ \E act \in StoreActions : AppendAction(act, None)
    \/ AppendEvent(StoreEvent)
    \/ SetRecording(TRUE, Some("s1"))
    \/ SetRecording(FALSE, None)
    \/ ResetContext
    \/ Clear
    \/ SnapshotGraph(0)
    \/ PredictNext(MaxK)

SpecStore == Init /\ [][NextStore]_vars

\* ------------------------------------------------------------------ one node per kind

\* Actions whose id tells their kind, as the ids event_to_action derives do: a state
\* snapshot and a click at every timestamp, one action of every other kind at time 0.
KindActions ==
    [id : {"STATE"}, ts : Timestamps, kind : {"STATE"}, label : {"L1"}]
      \cup [id : {"CLICK"}, ts : Timestamps, kind : {"CLICK"}, label : {"L1"}]
      \cup {[id |-> k, ts |-> 0, kind |-> k, label |-> "L1"] :
               k \in ActionKind \ {"STATE", "CLICK"}}

NextKinds ==
    \/ \E act \in KindActions : AppendAction(act, None)
    \/ ResetContext
    \/ Clear

SpecKinds == Init /\ [][NextKinds]_vars

\* ------------------------------------------------------------------ main.py: the predict endpoint on the event loop

\* what the predict handler has gathered so far; used is the context id predict_next
\* computed the predictions for
PredictResponse ==
    [ok |-> TRUE, context_node |-> None, context |-> None, predictions |-> << >>, used |-> None]

\* an acquire that gives way to the event loop every time
acquire_suspends_always(lock) == TRUE

\* "await self._lock.acquire()" suspends the caller only when the lock is taken
acquire_suspends(lock) == locked(lock)

\* the context predict_next reads (store.py 169)
predict_context(s) ==
    IF Truthy(s.last_state_id) THEN s.last_state_id ELSE s.last_workflow_action_id

\* the first store call of a handler
handler_first(op) == IF op = "predict" THEN "state" ELSE "call"

\* the task record after its next store call on store s (main.py 286-289); a handler
\* whose pc becomes "done" returns
handler_call(s, t) ==
    CASE t.pc = "state" ->
           LET ctx == get_last_state_id(s)
           IN [t EXCEPT !.out = Some([Val(t.out) EXCEPT !.context_node = ctx]),
                        !.pc = IF Truthy(ctx) THEN "meta" ELSE "workflow"]
      [] t.pc = "workflow" ->
           LET ctx == get_last_workflow_action_id(s)
           IN [t EXCEPT !.out = Some([Val(t.out) EXCEPT !.context_node = ctx]),
                        !.pc = IF Truthy(ctx) THEN "meta" ELSE "preds"]
      [] t.pc = "meta" ->
           [t EXCEPT !.out = Some([Val(t.out) EXCEPT
                                     !.context = get_node_meta(s, Val(Val(t.out).context_node))]),
                     !.pc = "preds"]
      [] t.pc = "preds" ->
           [t EXCEPT !.out = Some([Val(t.out) EXCEPT
                                     !.predictions = predict_next(s, 5).out,
                                     !.used = predict_context(s)]),
                     !.pc = "done"]
      [] OTHER -> [t EXCEPT !.pc = "done"]

\* A request or an agent callback arrives: its handler is scheduled on the event loop.
Schedule(t, op) ==
    /\ conc.tasks[t].sched = "off"
    /\ conc.ops < MaxOps
    /\ conc' = [conc EXCEPT
                  !.ops = @ + 1,
                  !.tasks[t] = [Task EXCEPT !.pc = handler_first(op[1]), !.op = op[1],
                                            !.arg = op[2], !.sched = "ready",
                                            !.out = IF op[1] = "predict"
                                                    THEN Some(PredictResponse) ELSE None]]
    /\ UNCHANGED <<store, ret, prev_snapshot, link, appended, cleared, tags, agents>>

\* The event loop, with no task running, runs a ready task, or one that waits for the
\* lock once the lock is free.
Run(t) ==
    /\ \A u \in TaskIds : conc.tasks[u].sched \notin {"running", "woken"}
    /\ IF conc.tasks[t].sched = "waiting" THEN ~locked(conc.lock)
       ELSE conc.tasks[t].sched = "ready"
    /\ conc' = [conc EXCEPT !.tasks[t].sched = IF @ = "waiting" THEN "woken" ELSE "running"]
    /\ UNCHANGED <<store, ret, prev_snapshot, link, appended, cleared, tags, agents>>

\* The running task makes its next store call: "async with self._lock" suspends it or
\* lets it in; inside, the operation runs to its end without awaiting and releases the
\* lock.  After its last call the handler returns.
StoreCall(t) ==
    /\ conc.tasks[t].sched \in {"running", "woken"}
    /\ IF conc.tasks[t].sched = "running" /\ acquire_suspends(conc.lock)
       THEN /\ conc' = [conc EXCEPT !.tasks[t].sched = "waiting"]
            /\ UNCHANGED <<store, ret, prev_snapshot, link>>
       ELSE LET task == handler_call(store, conc.tasks[t])
            IN /\ store' = IF conc.tasks[t].pc = "call" THEN store_op(store, conc.tasks[t])
                           ELSE store
               /\ IF task.pc = "done"
                  THEN /\ conc' = [conc EXCEPT !.tasks[t] = Task]
                       /\ ret' = Ret(task.op, task.arg, task.out)
                  ELSE /\ conc' = [conc EXCEPT !.tasks[t] = [task EXCEPT !.sched = "running"]]
                       /\ UNCHANGED ret
               /\ prev_snapshot' = None
               /\ link' = None
    /\ UNCHANGED <<appended, cleared, tags, agents>>

\* The handlers: the predict endpoint, and appends of a state snapshot and a click of
\* every id, reset_context and clear standing for the ingestion and the other endpoints.
EndpointOps ==
    {<<"predict", None>>, <<"reset_context", None>>, <<"clear", None>>}
    \cup {<<"append_action", Some(act)>> :
            act \in [id : Ids, ts : {0}, kind : {"STATE", "CLICK"}, label : {"L1"}]}

NextEndpoint ==
    \/ \E t \in TaskIds, op \in EndpointOps : Schedule(t, op)
    \/ \E t \in TaskIds : Run(t)
    \/ \E t \in TaskIds : StoreCall(t)

SpecEndpoint == Init /\ [][NextEndpoint]_vars

\* ------------------------------------------------------------------ claims

AppendedAct == Val(ret.arg)
IsAppend(r) == r.op = "append_action"
CtxEmpty(s) ==
    /\ s.last_action_id = None /\ s.last_action_ts = None
    /\ s.last_workflow_action_id = None /\ s.last_workflow_action_ts = None
    /\ s.last_state_id = None /\ s.last_state_ts = None
    /\ s.await_post_state_action_id = None /\ s.await_post_state_action_ts = None

\* the edges of t are those of s with one sample dt added to key (key = None: none added)
EdgesPlus(s, t, key, dt) ==
    \A e \in DictKeys(s.graph.edges) \cup DictKeys(t.graph.edges) \cup {key[i] : i \in DOMAIN key} :
        IF Some(e) = key
        THEN /\ EdgeCountOf(t, e) = EdgeCountOf(s, e) + 1
             /\ EdgeDtsOf(t, e) = Append(EdgeDtsOf(s, e), dt)
        ELSE /\ EdgeCountOf(t, e) = EdgeCountOf(s, e)
             /\ EdgeDtsOf(t, e) = EdgeDtsOf(s, e)
             /\ DictHas(t.graph.edges, e) = DictHas(s.graph.edges, e)

\* the predictor transitions of t are those of s with one observation of key added
TransitionsPlus(s, t, key) ==
    \A e \in DictKeys(s.predictor.transitions) \cup DictKeys(t.predictor.transitions)
             \cup {key[i] : i \in DOMAIN key} :
        TransitionCountOf(t, e) = TransitionCountOf(s, e) + (IF Some(e) = key THEN 1 ELSE 0)

\* C1: session isolation at the store level. No context pointer holds a value
\* that was set before the last reset_context or clear, and the edge sample an
\* append_action adds is never drawn from such a pointer.
C1_SessionIsolation ==
    /\ ~tags.state.stale /\ ~tags.workflow.stale /\ ~tags.await.stale
    /\ link # None => ~Val(link).stale
    /\ ret.op \in {"reset_context", "clear"} => CtxEmpty(store)

\* E1 a STATE action, then a reset, then E2 a CLICK: E2 got no parent.
C1_Witness ==
    /\ IsAppend(ret) /\ AppendedAct.kind = "CLICK"
    /\ link = None
    /\ store.graph.edges = << >>
    /\ store.last_state_id = None
    /\ ~cleared
    /\ \E i \in DOMAIN store.graph.node_meta :
          /\ store.graph.node_meta[i][2][2] = STATE_KIND
          /\ store.graph.node_meta[i][1] # AppendedAct.id

\* C2: deferred pairing. A STATE action at or after the pending action's
\* timestamp adds exactly one sample, its timestamp minus the pending one, to
\* the edge pending -> state and empties the pending slot; a STATE action that
\* finds the slot empty adds no edge; only a workflow action fills the slot.
C2_Step ==
    /\ (IsAppend(ret') /\ Val(ret'.arg).kind = STATE_KIND) =>
         LET act == Val(ret'.arg)
         IN IF store.await_post_state_action_id = None
            THEN /\ EdgesPlus(store, store', None, 0)
                 /\ store'.await_post_state_action_id = None
            ELSE act.ts >= Val(store.await_post_state_action_ts) =>
                 /\ EdgesPlus(store, store',
                              Some(<<Val(store.await_post_state_action_id), act.id>>),
                              act.ts - Val(store.await_post_state_action_ts))
                 /\ store'.await_post_state_action_id = None
                 /\ store'.await_post_state_action_ts = None
    /\ (store.await_post_state_action_id = None /\ store'.await_post_state_action_id # None) =>
         /\ IsAppend(ret') /\ is_workflow_kind(Val(ret'.arg).kind)
         /\ store'.await_post_state_action_id = Some(Val(ret'.arg).id)
         /\ store'.await_post_state_action_ts = Some(Val(ret'.arg).ts)
C2_DeferredPairing == [][C2_Step]_vars

\* CLICK@0, STATE@1, STATE@1: one edge with the one sample 1, none from the second STATE.
C2_Witness ==
    /\ TotalAppended = 3 /\ ~cleared
    /\ IsAppend(ret) /\ AppendedAct.kind = STATE_KIND /\ link = None
    /\ Len(store.actions) = 2 /\ store.actions[1].kind = STATE_KIND
    /\ store.actions[1].id # store.actions[2].id
    /\ Len(store.graph.edges) = 1
    /\ store.graph.edges[1][1][2] = store.actions[1].id
    /\ store.graph.edges[1][2] = [count |-> 1, dts |-> <<1>>]
    /\ store.await_post_state_action_id = None

\* C3: parent preference. A workflow action appended while last_state_id is set
\* adds one sample, its timestamp minus last_state_ts clamped at 0, to the edge
\* last_state_id -> action and one observation of that pair to the predictor,
\* and nothing else: no edge from last_workflow_action_id (when that is another id).
C3_Step ==
    (IsAppend(ret') /\ is_workflow_kind(Val(ret'.arg).kind) /\ store.last_state_id # None) =>
        LET act == Val(ret'.arg)
            parent == Some(<<Val(store.last_state_id), act.id>>)
        IN /\ EdgesPlus(store, store', parent, Max(0, act.ts - Val(store.last_state_ts)))
           /\ TransitionsPlus(store, store', parent)
           /\ (store.last_workflow_action_id # None
               /\ store.last_workflow_action_id # store.last_state_id) =>
                 EdgeCountOf(store', <<Val(store.last_workflow_action_id), act.id>>)
                   = EdgeCountOf(store, <<Val(store.last_workflow_action_id), act.id>>)
C3_ParentPreference == [][C3_Step]_vars

\* STATE(s1), CLICK(c1), CLICK(c2): the second click hangs under s1, not under c1.
C3_Witness ==
    /\ TotalAppended = 3 /\ ~cleared
    /\ IsAppend(ret) /\ AppendedAct.kind = "CLICK"
    /\ Len(store.actions) = 2 /\ store.actions[1].kind = "CLICK"
    /\ store.actions[1].id # AppendedAct.id
    /\ store.last_state_id # None /\ Val(store.last_state_id) # store.actions[1].id
    /\ EdgeCountOf(store, <<Val(store.last_state_id), AppendedAct.id>>) = 1
    /\ EdgeCountOf(store, <<store.actions[1].id, AppendedAct.id>>) = 0
    /\ TransitionCountOf(store, <<store.actions[1].id, AppendedAct.id>>) = 0

\* C4: count monotonicity. As long as clear was never called, the count of
\* every node is the number of actions appended with its id, whatever was
\* evicted from the action history.
C4_CountMonotonicity ==
    ~cleared => \A id \in Ids \cup DOMAIN appended \cup DictKeys(store.graph.node_counts) :
        /\ NodeCountOf(store, id) = CountAppended(id)
        /\ DictHas(store.graph.node_counts, id) = (CountAppended(id) > 0)

\* an id counted more often than the truncated history still shows it
C4_Witness ==
    /\ ~cleared
    /\ Len(store.actions) = store.max_events
    /\ \E id \in Ids :
          /\ NodeCountOf(store, id) >= 2
          /\ Cardinality({i \in DOMAIN store.actions : store.actions[i].id = id})
                < NodeCountOf(store, id)
          /\ ret.op = "reset_context"

\* C5: negative latency clamping. Every stored sample is >= 0, and a workflow
\* action older than the parent it is linked to still gets its edge: the count
\* goes up by one and the sample 0 is appended.
C5_Step ==
    /\ \A e \in DictKeys(store'.graph.edges) :
          \A i \in DOMAIN EdgeDtsOf(store', e) : EdgeDtsOf(store', e)[i] >= 0
    /\ (IsAppend(ret') /\ is_workflow_kind(Val(ret'.arg).kind)) =>
         LET act == Val(ret'.arg)
             pid == IF store.last_state_id # None THEN store.last_state_id
                    ELSE store.last_workflow_action_id
             pts == IF store.last_state_id # None THEN store.last_state_ts
                    ELSE store.last_workflow_action_ts
         IN (pid # None /\ act.ts < Val(pts)) =>
               /\ EdgeCountOf(store', <<Val(pid), act.id>>)
                    = EdgeCountOf(store, <<Val(pid), act.id>>) + 1
               /\ EdgeDtsOf(store', <<Val(pid), act.id>>)
                    = Append(EdgeDtsOf(store, <<Val(pid), act.id>>), 0)
C5_NegativeLatencyClamping == [][C5_Step]_vars

\* STATE@1 then CLICK@0: the edge exists and its sample is 0
C5_Witness ==
    /\ IsAppend(ret) /\ AppendedAct.kind = "CLICK" /\ AppendedAct.ts = 0
    /\ store.last_state_ts = Some(1)
    /\ link # None
    /\ Val(link).frm = Val(store.last_state_id)
    /\ EdgeDtsOf(store, <<Val(link).frm, Val(link).to>>) = <<0>>
    /\ EdgeCountOf(store, <<Val(link).frm, Val(link).to>>) = 1

\* the ids and counts of a prediction list
IdsAndCounts(preds) == [i \in DOMAIN preds |-> <<preds[i].id, preds[i].count>>]

\* C6: prediction context selection. predict_next(k) returns the top_k of
\* last_state_id when that is set, else the top_k of last_workflow_action_id,
\* else the empty list; after reset_context or clear it returns the empty
\* list; and appending a DOM/TAB/KEYBOARD/OTHER action moves neither pointer.
C6_Step ==
    /\ ret'.op = "predict_next" =>
         LET k == Val(ret'.arg)
             out == Val(ret'.out)
         IN IF store'.last_state_id # None
            THEN IdsAndCounts(out) = top_k(store'.predictor, Val(store'.last_state_id), k)
            ELSE IF store'.last_workflow_action_id # None
            THEN IdsAndCounts(out) = top_k(store'.predictor, Val(store'.last_workflow_action_id), k)
            ELSE out = << >>
    /\ ret'.op \in {"reset_context", "clear"} =>
         \A k \in 0..MaxK : predict_next(store', k).out = << >>
    /\ (IsAppend(ret') /\ Val(ret'.arg).kind # STATE_KIND
                       /\ ~is_workflow_kind(Val(ret'.arg).kind)) =>
         /\ store'.last_state_id = store.last_state_id
         /\ store'.last_workflow_action_id = store.last_workflow_action_id
C7_Step ==
    ret'.op = "snapshot_graph" =>
        /\ store' = store
        /\ prev_snapshot' # None =>
             /\ Val(ret'.out).nodes = Val(prev_snapshot').nodes
             /\ Val(ret'.out).edges = Val(prev_snapshot').edges
             /\ Val(ret'.out).v = Val(prev_snapshot').v
C7_SnapshotRoundTrip == [][C7_Step]_vars

\* two snapshots in a row, taken at different times, of a graph with two nodes
\* and an edge whose samples are not in ascending order
C7_Witness ==
    /\ ret.op = "snapshot_graph" /\ prev_snapshot # None
    /\ Val(ret.out).generated_at # Val(prev_snapshot).generated_at
    /\ Len(Val(ret.out).edges) >= 1
    /\ Len(Val(ret.out).nodes) >= 2
    /\ Val(ret.out).edges = Val(prev_snapshot).edges
    /\ \E i \in DOMAIN store.graph.edges : store.graph.edges[i][2].dts = <<1, 0>>

\* the eight context fields
Ctx(s) ==
    <<s.last_action_id, s.last_action_ts, s.last_workflow_action_id, s.last_workflow_action_ts,
      s.last_state_id, s.last_state_ts, s.await_post_state_action_id,
      s.await_post_state_action_ts>>

\* C8 as stated: right after stop_session has stopped the agent of a recording
\* session, the context fields are all empty.
C8_StopEmptiesContext ==
    (ret.op = "stop_session" /\ ret.arg # None) => CtxEmpty(store)

\* C8, amended: stop_session leaves the context fields, the graph and the
\* predictor as the last ingested event left them; when it returns, recording
\* is off and session_id and agent are None. The context is emptied by the
\* next start_session, before its agent is constructed.
C8_Step ==
    /\ ret'.op \in {"stop_session", "stop_session:await"} =>
         /\ Ctx(store') = Ctx(store)
         /\ store'.graph = store.graph
         /\ store'.predictor = store.predictor
    /\ ret'.op = "stop_session" =>
         /\ ~store'.recording
         /\ store'.session_id = None
         /\ store'.agent = None
    /\ ret'.op = "start_session:await" => CtxEmpty(store')
C8_StopFreezesContext == [][C8_Step]_vars

\* a recording session with a state snapshot and a click was stopped: both pointers
\* and the pending slot still hold them
C8_Witness ==
    /\ ret.op = "stop_session" /\ ret.arg # None
    /\ ~store.recording /\ store.agent = None
    /\ store.last_state_id # None
    /\ store.last_workflow_action_id # None
    /\ store.await_post_state_action_id # None

\* C9: lifecycle-level session isolation. Over a sequential series of
\* start_session, ingested events, stop_session and start_session, every sample
\* added to an edge joins a parent and a child ingested from the same agent,
\* that is in the same session, with no reset in between; and start_session
\* leaves the context empty before its agent can report an event.
C9_Step ==
    /\ link' # None =>
         /\ Val(link').src_from = Val(link').src_to
         /\ ~Val(link').stale
    /\ ret'.op = "start_session:await" =>
         /\ CtxEmpty(store')
         /\ tags' = NoTags
         /\ \E a \in AgentIds : store'.agent = Some(a) /\ agents[a].call = "none"
C9_LifecycleIsolation == [][C9_Step]_vars

\* session 1 recorded a state snapshot and was stopped; the first click of
\* session 2 got no parent
C9_Witness ==
    /\ IsAppend(ret) /\ AppendedAct.kind = "CLICK"
    /\ link = None
    /\ store.graph.edges = << >>
    /\ tags.workflow.src = Some(2)
    /\ agents[1].call = "returned" /\ ~agents[1].live
    /\ \E i \in DOMAIN store.graph.node_meta : store.graph.node_meta[i][2][2] = STATE_KIND

\* a store with nothing in it
Wiped(s) ==
    /\ s.graph.node_counts = << >>
    /\ s.graph.node_meta = << >>
    /\ s.graph.edges = << >>
    /\ s.predictor.transitions = << >>
    /\ s.predictor.outgoing = << >>
    /\ s.events = << >>
    /\ s.actions = << >>
    /\ CtxEmpty(s)
    /\ \A now \in Timestamps :
          /\ snapshot_graph(s, now).out.nodes = << >>
          /\ snapshot_graph(s, now).out.edges = << >>
    /\ \A k \in 0..MaxK : predict_next(s, k).out = << >>

\* C10: clear wipes everything. From every reachable state clear yields a
\* store whose node counts, node metadata, edges, predictor transitions, event
\* and action histories and context fields are empty, whose snapshot has no
\* nodes and no edges and whose prediction is the empty list; and the store is
\* in that condition right after a clear.
C10_ClearWipesEverything ==
    /\ Wiped(clear(store))
    /\ ret.op = "clear" => Wiped(store)

\* clear during a recording session that had ingested a state snapshot and a click
C10_Witness ==
    /\ ret.op = "clear"
    /\ TotalAppended = MaxAppends
    /\ store.recording
    /\ \E id \in DOMAIN appended : appended[id] >= 1 /\ id = "CLICK:localhost:3000/app:testid=save"
    /\ Wiped(store)

\* what reset_context must leave alone: the graph, the predictor and the histories
Retained(s) == <<s.graph.node_counts, s.graph.node_meta, s.graph.edges,
                 s.predictor.transitions, s.predictor.outgoing, s.events, s.actions>>

\* C11: the frame of reset_context. In every reachable state reset_context
\* yields a store whose eight context fields are None and whose node counts,
\* node metadata, edges with their samples, predictor transitions and event
\* and action histories are those of the store it was called on; the
\* start_session step that calls it leaves the store in that condition.
C11_Step ==
    /\ CtxEmpty(reset_context(store'))
    /\ Retained(reset_context(store')) = Retained(store')
    /\ ret'.op = "start_session:await" =>
         /\ CtxEmpty(store')
         /\ Retained(store') = Retained(store)
C11_ResetContextFrame == [][C11_Step]_vars

\* a second session starts on a store that holds events, actions, nodes, an
\* edge and a transition of the first: all of them are still there
C11_Witness ==
    /\ ret.op = "start_session:await"
    /\ CtxEmpty(store)
    /\ store.events # << >> /\ store.actions # << >>
    /\ store.graph.edges # << >>
    /\ store.predictor.transitions # << >>
    /\ Len(store.graph.node_counts) >= 2

\* the position of key in a dict: the order in which the keys were first set
KeyIndex(d, k) == CHOOSE i \in DOMAIN d : d[i][1] = k

\* C12: top_k ordering. top_k(a, k) returns min(k, n) pairs (b, count), n the
\* number of transitions out of a: no b twice, each count the transition count
\* of (a, b), counts descending, equal counts in the order in which the pairs
\* were first observed, and every pair left out ranks behind every pair
\* returned. A pair's place in that order is fixed by its first observe.
C12_Step ==
    /\ ret'.op = "top_k" =>
         LET a == Val(ret'.arg)[1]
             k == Val(ret'.arg)[2]
             out == Val(ret'.out)
             tr == store'.predictor.transitions
             from_a == {key \in DictKeys(tr) : key[1] = a}
             Before(x, y) == \/ DictGet(tr, x, 0) > DictGet(tr, y, 0)
                             \/ /\ DictGet(tr, x, 0) = DictGet(tr, y, 0)
                                /\ KeyIndex(tr, x) < KeyIndex(tr, y)
         IN /\ Len(out) <= k
            /\ Len(out) = IF Cardinality(from_a) < k THEN Cardinality(from_a) ELSE k
            /\ \A i \in DOMAIN out :
                 /\ <<a, out[i][1]>> \in from_a
                 /\ out[i][2] = DictGet(tr, <<a, out[i][1]>>, 0)
            /\ \A i, j \in DOMAIN out : i < j => Before(<<a, out[i][1]>>, <<a, out[j][1]>>)
            /\ \A key \in from_a :
                 (\A i \in DOMAIN out : out[i][1] # key[2]) =>
                    \A i \in DOMAIN out : Before(<<a, out[i][1]>>, key)
    /\ ret'.op = "observe" =>
         LET key == Val(ret'.arg)
             old == store.predictor.transitions
             new == store'.predictor.transitions
         IN /\ \A k2 \in DictKeys(old) : KeyIndex(new, k2) = KeyIndex(old, k2)
            /\ ~DictHas(old, key) => KeyIndex(new, key) = Len(old) + 1
            /\ DictGet(new, key, 0) = DictGet(old, key, 0) + 1
C12_TopKOrdering == [][C12_Step]_vars

\* two successors with equal counts are returned in the order of their first
\* observation, while a pair with another source and a higher count is left out
C12_Witness ==
    /\ ret.op = "top_k"
    /\ Len(Val(ret.out)) = 2
    /\ Val(ret.out)[1][2] = Val(ret.out)[2][2]
    /\ LET a == Val(ret.arg)[1]
           tr == store.predictor.transitions
       IN /\ KeyIndex(tr, <<a, Val(ret.out)[1][1]>>) < KeyIndex(tr, <<a, Val(ret.out)[2][1]>>)
          /\ \E key \in DictKeys(tr) : key[1] # a /\ DictGet(tr, key, 0) > Val(ret.out)[1][2]

\* C13: first-writer-wins metadata. A step other than clear leaves the stored
\* (label, kind) of every known id as it is, whatever label and kind a later
\* action with that id carries; append_action of an id not yet known stores
\* that action's label and kind and adds no other id; what get_node_meta
\* returns for a known id is that stored pair.
C13_Step ==
    LET old == store.graph.node_meta
        new == store'.graph.node_meta
    IN /\ ret'.op # "clear" =>
            \A id \in DictKeys(old) :
               /\ DictHas(new, id)
               /\ DictGet(new, id, << >>) = DictGet(old, id, << >>)
       /\ ret'.op = "clear" => new = << >>
       /\ IsAppend(ret') =>
            LET act == Val(ret'.arg)
            IN /\ DictKeys(new) = DictKeys(old) \cup {act.id}
               /\ ~DictHas(old, act.id) => DictGet(new, act.id, << >>) = <<act.label, act.kind>>
               /\ Val(get_node_meta(store', act.id)).label = DictGet(new, act.id, << >>)[1]
               /\ Val(get_node_meta(store', act.id)).kind = DictGet(new, act.id, << >>)[2]
       /\ ~IsAppend(ret') => DictKeys(new) \subseteq DictKeys(old)
C13_FirstWriterWins == [][C13_Step]_vars

\* an id first observed as a click, then a reset_context, and a third observation
\* as a DOM mutation with another label: the stored pair is still the click's
C13_Witness ==
    /\ IsAppend(ret) /\ ~cleared
    /\ NodeCountOf(store, AppendedAct.id) = 3
    /\ store.last_workflow_action_id = None
    /\ DictGet(store.graph.node_meta, AppendedAct.id, << >>)[1] # AppendedAct.label
    /\ DictGet(store.graph.node_meta, AppendedAct.id, << >>)[2] = "CLICK"
    /\ AppendedAct.kind = "DOM"

\* the tasks inside a critical section
Inside(c) == {t \in TaskIds : c.tasks[t].pc # "idle"}

\* C14: atomic per-event processing. Whatever the interleaving of the tasks,
\* at most one task is inside a critical section of the store; whenever the
\* lock is free the store is the one that the whole operations yield when
\* applied one after the other in the order they entered; every read returns
\* the view of that serial store; and a read executes only while no
\* append_action is between its parts.
C14_Step ==
    /\ Cardinality(Inside(conc')) <= 1
    /\ \A t \in Inside(conc') : conc'.lock = Some(t)
    /\ conc'.lock = None => store' = conc'.serial
    /\ \A t \in TaskIds :
         (conc.tasks[t].pc = "release" /\ conc'.tasks[t].pc = "idle") =>
            /\ store' = conc'.serial
            /\ ret'.out = store_read(conc'.serial, conc.tasks[t])
    /\ \A t \in TaskIds :
         (conc.tasks[t].pc = "body" /\ conc'.tasks[t].pc = "release") =>
            \A u \in TaskIds \ {t} : conc.tasks[u].pc = "idle"
C14_AtomicOperations == [][C14_Step]_vars

\* one task's snapshot has returned while another task is inside append_action with
\* the node touched and the edge not yet added
C14_Witness ==
    /\ ret.op = "snapshot_graph"
    /\ \E t \in TaskIds : conc.tasks[t].pc = "link" /\ conc.lock = Some(t)
    /\ Len(store.graph.node_counts) = 2
    /\ Len(Val(ret.out).nodes) = 1
    /\ store.graph.edges = << >>
    /\ conc.serial.graph.edges # << >>

\* the set of a list
SetOf(lst) == {lst[i] : i \in DOMAIN lst}

\* C15: STATE signature determinism. The id derived from a STATE_SNAPSHOT is
\* the id derived from every other STATE_SNAPSHOT of the same host and path
\* whose list holds the same set of test ids, whatever their order and their
\* repetitions; and with an empty or missing list it is STATE:<host><path>:empty.
C15_StateSignature ==
    (ret.op = "event_to_action" /\ Val(ret.arg).type = "STATE_SNAPSHOT") =>
        LET ev == Val(ret.arg)
            act == Val(ret.out)
        IN /\ \A ev2 \in StateEvents :
                (/\ safe_host(ev2.url) = safe_host(ev.url)
                 /\ safe_path(ev2.url) = safe_path(ev.url)
                 /\ SetOf(TestIds(ev2.payload)) = SetOf(TestIds(ev.payload)))
                => event_to_action(ev2).id = act.id
           /\ TestIds(ev.payload) = << >> =>
                act.id = "STATE:" \o safe_host(ev.url) \o safe_path(ev.url) \o ":empty"

\* the list b, a, b is identified as the set {a, b}
C15_Witness ==
    /\ ret.op = "event_to_action"
    /\ Val(ret.arg).type = "STATE_SNAPSHOT"
    /\ TestIds(Val(ret.arg).payload) = <<"b", "a", "b">>
    /\ Val(ret.out).id = "STATE:localhost:3000/app:sha1(a|b)"
    /\ Val(ret.out).payload.testids = <<"a", "b">>

\* the first of testid, ariaLabel, id, selector that is neither null nor empty,
\* with its rank; the selector, possibly empty, when there is none
FirstField(p) ==
    IF Truthy(Get(p, "testid")) THEN <<1, Val(p.testid)>>
    ELSE IF Truthy(Get(p, "ariaLabel")) THEN <<2, Val(p.ariaLabel)>>
    ELSE IF Truthy(Get(p, "id")) THEN <<3, Val(p.id)>>
    ELSE <<4, OrEmpty(Get(p, "selector"))>>

\* C16: CLICK identity. The id derived from a POINTER_DOWN is the id derived
\* from every other POINTER_DOWN with the same host, the same path and the
\* same first non-empty field among testid, ariaLabel, id, selector, whatever
\* the other fields; in particular two events with the same host, path and
\* non-empty testid have the same id. The id is CLICK:<host><path>:<key>, the
\* key naming that field (testid=, aria=, id=, sel=) and its value.
C16_ClickIdentity ==
    (ret.op = "event_to_action" /\ Val(ret.arg).type = "POINTER_DOWN") =>
        LET ev == Val(ret.arg)
            act == Val(ret.out)
            first == FirstField(ev.payload)
            prefix == <<"testid=", "aria=", "id=", "sel=">>[first[1]]
        IN /\ act.kind = "CLICK"
           /\ act.id = "CLICK:" \o safe_host(ev.url) \o safe_path(ev.url) \o ":"
                         \o scrub_text(prefix \o first[2], 160)
           /\ \A ev2 \in ClickEvents :
                (/\ safe_host(ev2.url) = safe_host(ev.url)
                 /\ safe_path(ev2.url) = safe_path(ev.url)
                 /\ FirstField(ev2.payload) = first)
                => event_to_action(ev2).id = act.id
           /\ \A ev2 \in ClickEvents :
                (/\ safe_host(ev2.url) = safe_host(ev.url)
                 /\ safe_path(ev2.url) = safe_path(ev.url)
                 /\ Truthy(ev.payload.testid)
                 /\ ev2.payload.testid = ev.payload.testid)
                => event_to_action(ev2).id = act.id

\* a click with a test id, an accessible name, an element id and a selector is
\* identified by its test id
C16_Witness ==
    /\ ret.op = "event_to_action"
    /\ Val(ret.arg).type = "POINTER_DOWN"
    /\ Val(ret.arg).payload.testid = Some("save")
    /\ Val(ret.arg).payload.ariaLabel = Some("Save")
    /\ Val(ret.arg).payload.id = Some("btn")
    /\ Val(ret.arg).payload.selector = Some("button#x")
    /\ Val(ret.arg).payload.x = 1
    /\ Val(ret.out).id = "CLICK:localhost:3000/app:testid=save"

\* the k-th smallest of a list of numbers, by counting
KthSmallest(dts, k) ==
    CHOOSE x \in SetOf(dts) :
        /\ Cardinality({i \in DOMAIN dts : dts[i] < x}) < k
        /\ Cardinality({i \in DOMAIN dts : dts[i] <= x}) >= k

\* C17: snapshot edge statistics. For every edge the snapshot reports the
\* stored count, which is the number of samples; median_ms is the middle
\* sample in sorted order, or for an even number of samples the mean of the
\* two middle ones rounded down; avg_ms is the largest integer q with
\* q * n <= sum of the samples; an edge without samples reports 0 and 0.
C17_Step ==
    /\ ret'.op = "snapshot_graph" =>
         LET out == Val(ret'.out)
             edges == store'.graph.edges
         IN /\ Len(out.edges) = Len(edges)
            /\ \A i \in DOMAIN edges :
                 LET dts == edges[i][2].dts
                     n == Len(dts)
                     e == out.edges[i]
                 IN /\ e.from = edges[i][1][1] /\ e.to = edges[i][1][2]
                    /\ e.count = edges[i][2].count
                    /\ e.count = n
                    /\ n > 0
                    /\ 2 * e.median_ms <= KthSmallest(dts, (n + 1) \div 2)
                                            + KthSmallest(dts, n \div 2 + 1)
                    /\ 2 * e.median_ms + 2 > KthSmallest(dts, (n + 1) \div 2)
                                                + KthSmallest(dts, n \div 2 + 1)
                    /\ e.avg_ms * n <= SeqSum(dts)
                    /\ (e.avg_ms + 1) * n > SeqSum(dts)
    /\ LET e == snapshot([GraphState EXCEPT !.edges = <<<<<<"a", "b">>, EdgeStat>>>>], 0).edges[1]
       IN e.count = 0 /\ e.median_ms = 0 /\ e.avg_ms = 0
C17_SnapshotEdgeStatistics == [][C17_Step]_vars

\* an edge with the four samples 3, 0, 1, 0: median (0 + 1) / 2 truncated to 0, mean 1
C17_Witness ==
    /\ ret.op = "snapshot_graph"
    /\ Len(store.graph.edges) = 1
    /\ store.graph.edges[1][2].dts = <<3, 0, 1, 0>>
    /\ Val(ret.out).edges[1].count = 4
    /\ Val(ret.out).edges[1].median_ms = 0
    /\ Val(ret.out).edges[1].avg_ms = 1

\* lst with x appended, cut to its last n entries when it has more
Retain(lst, x, n) ==
    IF Len(lst) + 1 <= n THEN Append(lst, x)
    ELSE SubSeq(Append(lst, x), Len(lst) + 2 - n, Len(lst) + 1)

\* C18 as stated: bounded history. The retained event list and the retained
\* action list each hold at most max_events entries, the most recently
\* appended ones in arrival order; and no append lowers a node count, an edge
\* count or a transition count or drops a sample.
C18_Step ==
    /\ Len(store'.events) <= store'.max_events
    /\ Len(store'.actions) <= store'.max_events
    /\ IsAppend(ret') =>
         /\ store'.actions = Retain(store.actions, Val(ret'.arg), store.max_events)
         /\ Len(store'.events) = Len(store'.actions)
         /\ \A id \in DictKeys(store.graph.node_counts) :
               NodeCountOf(store', id) >= NodeCountOf(store, id)
         /\ \A e \in DictKeys(store.graph.edges) :
               /\ EdgeCountOf(store', e) >= EdgeCountOf(store, e)
               /\ SubSeq(EdgeDtsOf(store', e), 1, Len(EdgeDtsOf(store, e))) = EdgeDtsOf(store, e)
         /\ \A e \in DictKeys(store.predictor.transitions) :
               TransitionCountOf(store', e) >= TransitionCountOf(store, e)
C18_BoundedHistory == [][C18_Step]_vars

\* C18 for a store constructed with max_events >= 1: the same statement, which
\* holds there.
C18_StepPositive == store.max_events >= 1 => C18_Step
C18_BoundedHistoryPositive == [][C18_StepPositive]_vars

\* the kinds that are neither STATE nor workflow kinds
ContextKinds == ActionKind \ (WORKFLOW_KINDS \cup {STATE_KIND})

\* t is s with the node of act counted once more and no edge and no transition added
CountedOnly(s, t, act) ==
    /\ NodeCountOf(t, act.id) = NodeCountOf(s, act.id) + 1
    /\ \A id \in DictKeys(s.graph.node_counts) \cup DictKeys(t.graph.node_counts) :
         id # act.id => NodeCountOf(t, id) = NodeCountOf(s, id)
    /\ t.graph.edges = s.graph.edges
    /\ t.predictor = s.predictor

\* the six fields of the linking context: last workflow action, last state, pending slot
LinkingCtx(s) ==
    <<s.last_workflow_action_id, s.last_workflow_action_ts, s.last_state_id, s.last_state_ts,
      s.await_post_state_action_id, s.await_post_state_action_ts>>

\* C19 as stated: appending an action of a kind that is neither STATE nor a
\* workflow kind counts its node once more, adds no edge and no transition and
\* leaves all eight context fields, lastAction included, unchanged.
C19_StepAsStated ==
    (IsAppend(ret') /\ Val(ret'.arg).kind \in ContextKinds) =>
        /\ CountedOnly(store, store', Val(ret'.arg))
        /\ Ctx(store') = Ctx(store)
C19_ContextKindsAlterNoPointer == [][C19_StepAsStated]_vars

\* C19, amended: appending an action of a kind that is neither STATE nor a
\* workflow kind (DOM stands for them: append_action tests the kind only against
\* STATE and the workflow kinds) counts its node once more, adds no edge and no transition, leaves lastWorkflowAction, lastState and the
\* pending slot (ids and timestamps) unchanged, and sets lastActionId/Ts to
\* the action's id and timestamp.
C19_Step ==
    (IsAppend(ret') /\ Val(ret'.arg).kind \in ContextKinds) =>
        /\ CountedOnly(store, store', Val(ret'.arg))
        /\ LinkingCtx(store') = LinkingCtx(store)
        /\ store'.last_action_id = Some(Val(ret'.arg).id)
        /\ store'.last_action_ts = Some(Val(ret'.arg).ts)
C19_ContextKindsMoveOnlyLastAction == [][C19_Step]_vars

\* a state snapshot, a click, then a DOM mutation of another id than the click: state,
\* workflow and pending pointers stay, lastAction is the DOM mutation
C19_Witness ==
    /\ IsAppend(ret) /\ AppendedAct.kind = "DOM"
    /\ store.last_state_id # None
    /\ store.last_workflow_action_id # None
    /\ store.await_post_state_action_id = store.last_workflow_action_id
    /\ store.last_action_id = Some(AppendedAct.id)
    /\ store.last_action_id # store.last_workflow_action_id
    /\ Len(store.graph.edges) = 1

\* the pending slot: id and timestamp
Pending(s) == <<s.await_post_state_action_id, s.await_post_state_action_ts>>

\* the step is the append of a STATE action that finds the slot set and is not older than it
ResolvingState(s, r) ==
    /\ IsAppend(r) /\ Val(r.arg).kind = STATE_KIND
    /\ s.await_post_state_action_id # None
    /\ Val(r.arg).ts >= Val(s.await_post_state_action_ts)

\* C20: late state snapshots. A STATE action older than the pending action adds
\* no edge and leaves the pending slot as it is, but overwrites last_state_id/ts;
\* the pending link is resolved (one sample on pending -> state, slot emptied)
\* by the first later STATE action whose timestamp is >= the pending one, and by
\* no other step: every other step adds no edge out of the pending action to a
\* STATE node, and the slot is emptied otherwise only by reset_context or clear.
C20_Step ==
    /\ (IsAppend(ret') /\ Val(ret'.arg).kind = STATE_KIND
        /\ store.await_post_state_action_id # None
        /\ Val(ret'.arg).ts < Val(store.await_post_state_action_ts)) =>
         /\ EdgesPlus(store, store', None, 0)
         /\ Pending(store') = Pending(store)
         /\ store'.last_state_id = Some(Val(ret'.arg).id)
         /\ store'.last_state_ts = Some(Val(ret'.arg).ts)
    /\ ResolvingState(store, ret') =>
         /\ EdgesPlus(store, store',
                      Some(<<Val(store.await_post_state_action_id), Val(ret'.arg).id>>),
                      Val(ret'.arg).ts - Val(store.await_post_state_action_ts))
         /\ Pending(store') = <<None, None>>
    /\ (store.await_post_state_action_id # None /\ ~ResolvingState(store, ret')) =>
         /\ (IsAppend(ret') /\ Val(ret'.arg).kind = STATE_KIND) =>
               EdgesPlus(store, store', None, 0)
         /\ Pending(store') = <<None, None>> => ret'.op \in {"reset_context", "clear"}
C20_LateStateSnapshots == [][C20_Step]_vars

\* CLICK@1, STATE@0, STATE@1: the late snapshot is passed over and the second one
\* resolves the link with the one sample 0.
C20_Witness ==
    /\ TotalAppended = 3 /\ ~cleared
    /\ IsAppend(ret) /\ AppendedAct.kind = STATE_KIND /\ AppendedAct.ts = 1
    /\ Len(store.actions) = 2
    /\ store.actions[1].kind = STATE_KIND /\ store.actions[1].ts = 0
    /\ link # None /\ Val(link).to = AppendedAct.id /\ Val(link).frm # AppendedAct.id
    /\ Len(store.graph.edges) = 1
    /\ store.graph.edges[1][2] = [count |-> 1, dts |-> <<0>>]
    /\ Pending(store) = <<None, None>>
    /\ store.last_workflow_action_ts = Some(1)

\* the last two actions of the history are workflow actions
TwoWorkflowActions(s) ==
    /\ Len(s.actions) >= 2
    /\ is_workflow_kind(s.actions[Len(s.actions) - 1].kind)
    /\ is_workflow_kind(s.actions[Len(s.actions)].kind)

\* C21: single pending slot. A workflow action takes the pending slot whatever
\* the slot held; when workflow action w1 was followed by workflow action w2
\* and a resolving STATE action s comes next, s adds exactly one edge sample,
\* on w2 -> s with latency s.ts - w2.ts, and so none measured from w1.
C21_Step ==
    /\ (IsAppend(ret') /\ is_workflow_kind(Val(ret'.arg).kind)) =>
         Pending(store') = <<Some(Val(ret'.arg).id), Some(Val(ret'.arg).ts)>>
    /\ (ResolvingState(store, ret') /\ IsAppend(ret) /\ TwoWorkflowActions(store)) =>
         LET w2 == store.actions[Len(store.actions)]
             s == Val(ret'.arg)
         IN /\ Pending(store) = <<Some(w2.id), Some(w2.ts)>>
            /\ EdgesPlus(store, store', Some(<<w2.id, s.id>>), s.ts - w2.ts)
C21_SinglePendingSlot == [][C21_Step]_vars

\* w1@0, w2@1 of another id, s@1: the fallback edge w1 -> w2 with the sample 1 and the
\* edge w2 -> s with the sample 0; nothing from w1 to s.
C21_Witness ==
    /\ TotalAppended = 3 /\ ~cleared
    /\ IsAppend(ret) /\ AppendedAct.kind = STATE_KIND /\ AppendedAct.ts = 1
    /\ Len(store.actions) = 2 /\ is_workflow_kind(store.actions[1].kind)
    /\ Len(store.graph.edges) = 2
    /\ store.graph.edges[1][1][2] = store.actions[1].id
    /\ store.graph.edges[1][1][1] # store.actions[1].id
    /\ store.graph.edges[1][2] = [count |-> 1, dts |-> <<1>>]
    /\ store.graph.edges[2][1] = <<store.actions[1].id, AppendedAct.id>>
    /\ store.graph.edges[2][2] = [count |-> 1, dts |-> <<0>>]
    /\ Pending(store) = <<None, None>>

\* C22: workflow fallback. last_state_id is set by every STATE action and
\* emptied by reset_context and clear only, so it tells whether a STATE action
\* was appended since the last of them; last_workflow_action_id likewise for
\* workflow actions. A workflow action appended while a state is known adds
\* its one sample to state -> action and none from the previous workflow
\* action; with no state known it adds one sample and one transition on
\* previous workflow action -> action, and nothing at all (the call still
\* completes and moves the pointers) when there is no previous workflow action.
C22_Step ==
    /\ (IsAppend(ret') /\ Val(ret'.arg).kind = STATE_KIND) => store'.last_state_id # None
    /\ (store.last_state_id # None /\ store'.last_state_id = None) =>
         ret'.op \in {"reset_context", "clear"}
    /\ (store.last_state_id = None /\ store'.last_state_id # None) =>
         IsAppend(ret') /\ Val(ret'.arg).kind = STATE_KIND
    /\ (store.last_workflow_action_id = None /\ store'.last_workflow_action_id # None) =>
         IsAppend(ret') /\ is_workflow_kind(Val(ret'.arg).kind)
    /\ ret'.op \in {"reset_context", "clear"} =>
         store'.last_state_id = None /\ store'.last_workflow_action_id = None
    /\ (IsAppend(ret') /\ is_workflow_kind(Val(ret'.arg).kind)) =>
         LET act == Val(ret'.arg)
             parent == IF store.last_state_id # None
                       THEN Some(<<Val(store.last_state_id), act.id>>)
                       ELSE IF store.last_workflow_action_id # None
                       THEN Some(<<Val(store.last_workflow_action_id), act.id>>)
                       ELSE None
             dt == IF store.last_state_id # None
                   THEN Max(0, act.ts - Val(store.last_state_ts))
                   ELSE IF store.last_workflow_action_id # None
                   THEN Max(0, act.ts - Val(store.last_workflow_action_ts))
                   ELSE 0
         IN /\ EdgesPlus(store, store', parent, dt)
            /\ TransitionsPlus(store, store', parent)
            /\ store'.last_workflow_action_id = Some(act.id)
            /\ store'.await_post_state_action_id = Some(act.id)
C22_WorkflowFallback == [][C22_Step]_vars

\* CLICK x, CLICK y (the fallback edge x -> y), reset_context, CLICK x: the click
\* after the reset adds nothing, the edge y -> x does not exist.
C22_Witness ==
    /\ TotalAppended = 3 /\ ~cleared
    /\ IsAppend(ret) /\ AppendedAct.kind = "CLICK" /\ link = None
    /\ Len(store.actions) = 2 /\ store.actions[1].kind = "CLICK"
    /\ store.actions[1].id # AppendedAct.id
    /\ Len(store.graph.edges) = 1
    /\ store.graph.edges[1][1] = <<AppendedAct.id, store.actions[1].id>>
    /\ store.graph.edges[1][2].count = 1
    /\ Len(store.predictor.transitions) = 1
    /\ store.last_state_id = None
    /\ store.last_workflow_action_id = Some(AppendedAct.id)

\* the number of latency samples held by all the edges together
EdgeSamples(s) == SeqSum([i \in DOMAIN s.graph.edges |-> Len(s.graph.edges[i][2].dts)])

\* C23: a STATE action adds at most one edge sample, on the edge from the
\* pending action to the STATE action itself, so never one that leaves the
\* STATE action; it changes neither the predictor nor last_workflow_action_id/ts.
\* Every append_action adds at most one edge sample, on an edge that ends in
\* the appended action's id, and removes none.
C23_Step ==
    /\ IsAppend(ret') =>
         /\ EdgeSamples(store') \in {EdgeSamples(store), EdgeSamples(store) + 1}
         /\ \A key \in AddedEdges(store, store') : key[2] = Val(ret'.arg).id
         /\ \A key \in DictKeys(store.graph.edges) :
               EdgeCountOf(store', key) >= EdgeCountOf(store, key)
    /\ (IsAppend(ret') /\ Val(ret'.arg).kind = STATE_KIND) =>
         /\ \A key \in AddedEdges(store, store') :
               /\ store.await_post_state_action_id = Some(key[1])
               /\ key[1] = Val(ret'.arg).id => store.last_workflow_action_id = Some(key[1])
         /\ store'.predictor = store.predictor
         /\ store'.last_workflow_action_id = store.last_workflow_action_id
         /\ store'.last_workflow_action_ts = store.last_workflow_action_ts
C23_AtMostOneEdgeIntoTheAction == [][C23_Step]_vars

\* STATE s, CLICK c (edge and transition s -> c), STATE s again: the one new edge is
\* c -> s; the predictor still holds the one transition and the click is still the
\* last workflow action.
C23_Witness ==
    /\ TotalAppended = 3 /\ ~cleared
    /\ IsAppend(ret) /\ AppendedAct.kind = STATE_KIND
    /\ Len(store.actions) = 2 /\ store.actions[1].kind = "CLICK"
    /\ store.actions[1].id # AppendedAct.id
    /\ DictKeys(store.graph.edges) = {<<AppendedAct.id, store.actions[1].id>>,
                                      <<store.actions[1].id, AppendedAct.id>>}
    /\ EdgeSamples(store) = 2
    /\ DictKeys(store.predictor.transitions) = {<<AppendedAct.id, store.actions[1].id>>}
    /\ TransitionCountOf(store, <<AppendedAct.id, store.actions[1].id>>) = 1
    /\ store.last_workflow_action_id = Some(store.actions[1].id)

\* the ordered pairs that carry an edge or a transition in s or in t
PairsOf(s, t) ==
    DictKeys(s.graph.edges) \cup DictKeys(t.graph.edges)
      \cup DictKeys(s.predictor.transitions) \cup DictKeys(t.predictor.transitions)

\* the edge samples of the pair that the predictor did not count
Unobserved(s, key) == EdgeCountOf(s, key) - TransitionCountOf(s, key)

\* C24 as stated: in every reachable state the predictor's transition count of
\* every ordered pair equals the EdgeStat count of that pair.
C24_PredictorEqualsEdgeCounts ==
    \A key \in PairsOf(store, store) : TransitionCountOf(store, key) = EdgeCountOf(store, key)

\* C24, amended: the predictor counts the links into workflow actions only. A
\* step that is not the append of a STATE action changes the edge count and
\* the transition count of every pair by the same amount; the append of a
\* STATE action leaves the predictor as it is, so the sample it adds on
\* pending -> state is counted by the edge alone. In every reachable state the
\* transition count of a pair is at most its edge count.
C24_Step ==
    /\ \A key \in PairsOf(store, store') :
         /\ TransitionCountOf(store', key) <= EdgeCountOf(store', key)
         /\ ~(IsAppend(ret') /\ Val(ret'.arg).kind = STATE_KIND) =>
               \/ Unobserved(store', key) = Unobserved(store, key)
               \/ ret'.op = "clear" /\ Unobserved(store', key) = 0
    /\ (IsAppend(ret') /\ Val(ret'.arg).kind = STATE_KIND) =>
         /\ store'.predictor = store.predictor
         /\ ResolvingState(store, ret') =>
              LET key == <<Val(store.await_post_state_action_id), Val(ret'.arg).id>>
              IN Unobserved(store', key) = Unobserved(store, key) + 1
C24_PredictorCountsWorkflowLinks == [][C24_Step]_vars

\* CLICK x, CLICK y, STATE: x -> y is counted once by both, y -> state by the edge only.
C24_Witness ==
    /\ IsAppend(ret) /\ AppendedAct.kind = STATE_KIND /\ link # None /\ ~cleared
    /\ Len(store.graph.edges) = 2 /\ Len(store.predictor.transitions) = 1
    /\ LET wf == store.graph.edges[1][1]
           st == store.graph.edges[2][1]
       IN /\ wf[2] = st[1] /\ st[2] = AppendedAct.id /\ wf[1] # wf[2]
          /\ EdgeCountOf(store, wf) = 1 /\ TransitionCountOf(store, wf) = 1
          /\ EdgeCountOf(store, st) = 1 /\ TransitionCountOf(store, st) = 0
          /\ store.last_workflow_action_id = Some(st[1])

\* the count the predictor holds for the transitions out of a
OutgoingOf(s, a) == DictGet(s.predictor.outgoing, a, 0)

\* C25: append/increment-only store. Across every step other than clear no
\* node and no edge disappears, no node count, edge count, transition count or
\* outgoing count decreases, the node metadata stays as stored, and the sample
\* sequence of each edge before the step is a prefix of its sequence after.
C25_Step ==
    ret'.op # "clear" =>
        /\ ret'.op \in {"append_action", "append_event", "reset_context", "snapshot_graph",
                        "predict_next", "set_recording"}
        /\ \A id \in DictKeys(store.graph.node_counts) :
              /\ DictHas(store'.graph.node_counts, id)
              /\ NodeCountOf(store', id) >= NodeCountOf(store, id)
        /\ \A id \in DictKeys(store.graph.node_meta) :
              /\ DictHas(store'.graph.node_meta, id)
              /\ DictGet(store'.graph.node_meta, id, None) = DictGet(store.graph.node_meta, id, None)
        /\ \A key \in DictKeys(store.graph.edges) :
              /\ DictHas(store'.graph.edges, key)
              /\ EdgeCountOf(store', key) >= EdgeCountOf(store, key)
              /\ Len(EdgeDtsOf(store', key)) >= Len(EdgeDtsOf(store, key))
              /\ SubSeq(EdgeDtsOf(store', key), 1, Len(EdgeDtsOf(store, key)))
                   = EdgeDtsOf(store, key)
        /\ \A key \in DictKeys(store.predictor.transitions) :
              /\ DictHas(store'.predictor.transitions, key)
              /\ TransitionCountOf(store', key) >= TransitionCountOf(store, key)
        /\ \A a \in DictKeys(store.predictor.outgoing) :
              /\ DictHas(store'.predictor.outgoing, a)
              /\ OutgoingOf(store', a) >= OutgoingOf(store, a)
C25_AppendOnlyUntilClear == [][C25_Step]_vars

\* An edge that took a second sample after a first of another value, then reset_context
\* with an event stored and recording on: the graph and the predictor are still there.
C25_Witness ==
    /\ ret.op = "reset_context" /\ ~cleared
    /\ store.recording /\ store.events # << >>
    /\ \E i \in DOMAIN store.graph.edges :
          /\ store.graph.edges[i][2].count = 2
          /\ store.graph.edges[i][2].dts = <<1, 0>>
    /\ store.predictor.transitions # << >>
    /\ CtxEmpty(store)

\* the three classes of kinds, written out
StateClass == {"STATE"}
WorkflowClass == {"CLICK", "SHORTCUT", "NAV"}
ContextClass == {"DOM", "TAB", "KEYBOARD", "MOUSE", "OTHER"}

\* C26: context actions are never transition parents. With every node id
\* telling the kind of its actions: every edge is STATE -> workflow,
\* workflow -> workflow or workflow -> STATE, every predictor transition is
\* STATE -> workflow or workflow -> workflow, and so none has an action of kind
\* DOM, TAB, KEYBOARD, MOUSE or OTHER at either end.
C26_ContextActionsNeverLinked ==
    /\ \A id \in DictKeys(store.graph.node_meta) :
          DictGet(store.graph.node_meta, id, <<"", "">>)[2] = id
    /\ \A key \in DictKeys(store.graph.edges) :
          /\ key[1] \notin ContextClass /\ key[2] \notin ContextClass
          /\ \/ key[1] \in StateClass /\ key[2] \in WorkflowClass
             \/ key[1] \in WorkflowClass /\ key[2] \in WorkflowClass
             \/ key[1] \in WorkflowClass /\ key[2] \in StateClass
    /\ \A key \in DictKeys(store.predictor.transitions) :
          /\ key[2] \in WorkflowClass
          /\ key[1] \in StateClass \cup WorkflowClass
    /\ \A a \in DictKeys(store.predictor.outgoing) : a \in StateClass \cup WorkflowClass

\* a workflow action, then an action of a context kind, then a STATE action: the
\* one edge runs from the workflow action to the state, past the context action.
C26_Witness ==
    /\ TotalAppended = 3 /\ ~cleared
    /\ IsAppend(ret) /\ AppendedAct.kind = STATE_KIND
    /\ Len(store.actions) = 2 /\ store.actions[1].kind \in ContextClass
    /\ NodeCountOf(store, store.actions[1].id) = 1
    /\ Len(store.graph.edges) = 1
    /\ store.graph.edges[1][1][1] \in WorkflowClass
    /\ store.graph.edges[1][1][2] = "STATE"
    /\ store.predictor.transitions = << >>
    /\ store.last_action_id = Some("STATE")

\* the ids that have a node
NodeIds(s) == DictKeys(s.graph.node_counts)

\* the context pointers that hold an id
PointerIds(s) ==
    {Val(p) : p \in {s.last_action_id, s.last_workflow_action_id, s.last_state_id,
                     s.await_post_state_action_id} \ {None}}

\* C27: referential integrity. The ids with a node count are the ids with node
\* metadata; both ends of every edge and of every predictor transition, every
\* key of the outgoing counts and every context pointer that is set are among
\* them; every entry predict_next returns carries the stored label and kind of
\* its id.
C27_ReferentialIntegrity ==
    /\ NodeIds(store) = DictKeys(store.graph.node_meta)
    /\ \A key \in DictKeys(store.graph.edges) \cup DictKeys(store.predictor.transitions) :
          key[1] \in NodeIds(store) /\ key[2] \in NodeIds(store)
    /\ DictKeys(store.predictor.outgoing) \subseteq NodeIds(store)
    /\ PointerIds(store) \subseteq NodeIds(store)
    /\ ret.op = "predict_next" =>
         \A i \in DOMAIN Val(ret.out) :
            LET e == Val(ret.out)[i]
            IN /\ e.id \in NodeIds(store)
               /\ get_node_meta(store, e.id) # None
               /\ Val(get_node_meta(store, e.id)).label = e.label
               /\ Val(get_node_meta(store, e.id)).kind = e.kind

\* a state snapshot, a click, the snapshot again, then predict_next: an edge each
\* way, one transition, three pointers set, and one prediction returned.
C27_Witness ==
    /\ ret.op = "predict_next" /\ Len(Val(ret.out)) = 1
    /\ Val(ret.out)[1].kind = "CLICK"
    /\ Len(store.graph.edges) = 2 /\ Len(store.predictor.transitions) = 1
    /\ store.last_state_id # None /\ store.last_workflow_action_id # None
    /\ store.last_action_id = store.last_state_id
    /\ cleared

\* C28: pending-slot coherence. The id and the timestamp of each context
\* pointer are both set or both empty, and a pending slot that is set holds
\* last_workflow_action_id and last_workflow_action_ts.
C28_PendingSlotCoherence ==
    /\ (store.last_action_id = None) = (store.last_action_ts = None)
    /\ (store.last_workflow_action_id = None) = (store.last_workflow_action_ts = None)
    /\ (store.last_state_id = None) = (store.last_state_ts = None)
    /\ (store.await_post_state_action_id = None) = (store.await_post_state_action_ts = None)
    /\ store.await_post_state_action_id # None =>
         /\ store.await_post_state_action_id = store.last_workflow_action_id
         /\ store.await_post_state_action_ts = store.last_workflow_action_ts

\* a click at time 1 and then a state snapshot of time 0, which leaves the slot set
C28_Witness ==
    /\ IsAppend(ret) /\ AppendedAct.kind = STATE_KIND /\ AppendedAct.ts = 0
    /\ store.await_post_state_action_ts = Some(1)
    /\ store.last_workflow_action_ts = Some(1)
    /\ store.last_state_ts = Some(0)
    /\ store.last_action_id = store.last_state_id
    /\ store.await_post_state_action_id # store.last_state_id
    /\ store.graph.edges = << >>

\* the response of the predict handler on store s when operation op of another task
\* runs after the handler read its context and before its remaining store calls
PredictAcross(s, op) ==
    LET t0 == [Task EXCEPT !.pc = "state", !.op = "predict", !.out = Some(PredictResponse)]
        t1 == handler_call(s, t0)
        t2 == IF t1.pc = "workflow" THEN handler_call(s, t1) ELSE t1
        s2 == store_op(s, [Task EXCEPT !.pc = "call", !.op = op[1], !.arg = op[2]])
        t3 == IF t2.pc = "meta" THEN handler_call(s2, t2) ELSE t2
    IN Val(handler_call(s2, t3).out)

LiveAgents == {a \in AgentIds : agents[a].live}

\* C30 as stated: at most one started agent feeds the store at any time, and
\* store.agent refers to it.
C30_AtMostOneAgent ==
    /\ Cardinality(LiveAgents) <= 1
    /\ \A a \in LiveAgents : store.agent = Some(a)

\* C30, its last part: a start_session that finds recording on answers with
\* the session id of the store and changes neither the store nor the agents.
C30_StepWhileRecording ==
    (ret'.op = "start_session" /\ store.recording) =>
    \/ /\ store' = store /\ agents' = agents
       /\ ret'.out = Some(Response(TRUE, 200, store.session_id))
    \/ \E a \in AgentIds : agents[a].call = "emitted" /\ agents'[a].call = "returned"
    \/ \E a \in AgentIds : agents[a].call = "awaiting" /\ agents'[a].call = "failed"
C30_StartWhileRecording == [][C30_StepWhileRecording]_vars

\* two start_session calls, the second made while the first awaits agent.start(): both
\* agents are live and an event of the first, which store.agent no longer names, was
\* appended after the second was constructed
C30_TwoAgentsFeed ==
    /\ Cardinality(LiveAgents) = 2
    /\ store.agent = Some(2)
    /\ IsAppend(ret) /\ store.actions # << >>
    /\ tags.state.src = Some(1) \/ tags.workflow.src = Some(1)

\* the sum of the transition counts of the pairs that start at a
TransitionsOutOf(s, a) ==
    SeqSum([i \in DOMAIN s.predictor.transitions |->
              IF s.predictor.transitions[i][1][1] = a THEN s.predictor.transitions[i][2] ELSE 0])

\* C31: edge bookkeeping. Every edge that exists has a count of at least 1,
\* equal to the length of its sample sequence; for every a the predictor's
\* outgoing[a] is the sum over b of transitions[(a, b)], and every a with a
\* transition has an outgoing count.
C31_EdgeBookkeeping ==
    /\ \A i \in DOMAIN store.graph.edges :
          /\ store.graph.edges[i][2].count >= 1
          /\ store.graph.edges[i][2].count = Len(store.graph.edges[i][2].dts)
    /\ \A a \in DictKeys(store.predictor.outgoing)
                 \cup {key[1] : key \in DictKeys(store.predictor.transitions)} :
          /\ DictHas(store.predictor.outgoing, a)
          /\ OutgoingOf(store, a) = TransitionsOutOf(store, a)
    /\ \A i \in DOMAIN store.predictor.transitions : store.predictor.transitions[i][2] >= 1

\* a state snapshot and two clicks of different ids under it: two transitions out of
\* the state, an outgoing count of 2, and two edges of one sample each
C31_Witness ==
    /\ IsAppend(ret) /\ ~cleared
    /\ store.last_state_id # None
    /\ Len(store.predictor.transitions) = 2
    /\ store.predictor.transitions[1][1][1] = Val(store.last_state_id)
    /\ store.predictor.transitions[2][1][1] = Val(store.last_state_id)
    /\ OutgoingOf(store, Val(store.last_state_id)) = 2
    /\ Len(store.graph.edges) = 2
    /\ \A i \in DOMAIN store.graph.edges : store.graph.edges[i][2].count = 1

====
